---- MODULE Spec2Model ----
(***************************************************************************)
(* SoundSwitch: the hotkey listener thread, the switch pipelines, the      *)
(* startup validation and the tray coordinator of src/src/main.rs, with    *)
(* the device enumeration of src/src/audio_device.rs and the configuration *)
(* of src/src/config.rs.                                                   *)
(*                                                                         *)
(* Strings whose characters matter (device names, target names) are        *)
(* sequences of one-character strings, so that equality is byte-for-byte   *)
(* and case folding and subsequence matching are computed.                 *)
(***************************************************************************)
EXTENDS Integers, Sequences, FiniteSets, TLC

\* ------------------------------------------------------------------ bounds
\* Longest device list an enumeration returns.
MaxDevices == 2
\* Largest score the fuzzy matcher hands out.
MaxScore == 2
\* Hotkey events waiting in the event channel at one time.
MaxEvents == 1
\* Native window messages waiting in the Listener's queue at one time.
MaxNative == 1
\* Quit messages waiting in the channel at one time.
MaxQuit == 1
\* Hotkey events, and native messages, already waiting when the Listener
\* starts an iteration of its loop under load.
MaxBurst == 2
\* Endpoints in the collection the OS hands an enumeration.
MaxEndpoints == 2

\* ------------------------------------------------------------------ values
\* Option: None, or Some(v); x[1] unwraps.
None == <<>>

Some(v) == <<v>>

Ok(v) == [ok |-> TRUE, val |-> v]

Err(e) == [ok |-> FALSE, val |-> e]

\* Device and target names of the model: "Ab", "ab", "acb", "b".
NameAb == <<"A", "b">>

Nameab == <<"a", "b">>

Nameacb == <<"a", "c", "b">>

Nameb == <<"b">>

Names == {NameAb, Nameab, Nameacb, Nameb}

\* char::to_lowercase / eq_ignore_ascii_case on the model's alphabet.
LowerChar(c) == CASE c = "A" -> "a" [] c = "B" -> "b" [] c = "C" -> "c" [] OTHER -> c

Lower(s) == [i \in 1..Len(s) |-> LowerChar(s[i])]

IsUpperChar(c) == c \in {"A", "B", "C"}

\* The names list_*_devices gives a device whose friendly name it cannot read.
UnknownName == <<"Unknown Name">>

InvalidName == <<"Invalid Name">>

\* AudioDevice { id, name }: the id is the endpoint's place in the OS
\* collection it was enumerated from, tagged with the data flow.
AudioDevice(flow, i, name) == [id |-> <<flow, i>>, name |-> name]

\* The device lists of length n whose names come from Names.
DeviceListsOfLen(flow, n) ==
    {[i \in 1..n |-> AudioDevice(flow, i, f[i])] : f \in [1..n -> Names]}

DeviceLists(flow) == UNION {DeviceListsOfLen(flow, n) : n \in 0..MaxDevices}

NamesOf(devs) == [i \in 1..Len(devs) |-> devs[i].name]

\* ------------------------------------------------------------------ state
VARIABLES
    config_file,                \* config.toml next to the executable
    config,                     \* the Config run_tray_app loaded, or None
    skim,                       \* SkimMatcherV2's score of (choice, pattern)
    cpc,                        \* where the Coordinator (main thread) is
    validation,                 \* what validate_configured_devices returned
    shutdown_signal,            \* Arc<AtomicBool>
    channel,                    \* crossbeam channel of AppMessage
    lpc,                        \* where the Listener thread is
    com_inits,                  \* CoInitializeEx calls of the Listener thread not yet undone
    os_hotkeys,                 \* the ids registered with the OS hotkey service
    hotkey_device_map,          \* hotkey id -> HotkeyMapping
    available_output_devices,   \* the Listener's output snapshot
    available_input_devices,    \* the Listener's input snapshot
    receiver,                   \* GlobalHotKeyEvent::receiver() queue
    native,                     \* pending native window messages
    message_handled,            \* PeekMessageW's result of this iteration
    last,                       \* what step 1 of this iteration did with its event
    hist                        \* what happened so far: the sleeps with the
                                \* flag set, whether this iteration took an
                                \* event, whether a switch has failed, the
                                \* stores into the flag, the join's result,
                                \* the answers of the OS to the Listener's
                                \* enumerations, the events dequeued with
                                \* the flag set

vars == <<config_file, config, skim, cpc, validation, shutdown_signal, channel,
          lpc, com_inits, os_hotkeys, hotkey_device_map, available_output_devices,
          available_input_devices, receiver, native, message_handled, last, hist>>

\* ---------------------------------------------------------------- matcher
\* fuzzy-matcher's char_equal.
CharEqual(c, p, case_sensitive) ==
    IF case_sensitive THEN c = p ELSE LowerChar(c) = LowerChar(p)

\* fuzzy-matcher's cheap_matches from choice[i], pattern[j] on: whether the
\* pattern is a subsequence of the choice.
RECURSIVE CheapMatchesFrom(_, _, _, _, _)
CheapMatchesFrom(choice, pattern, i, j, case_sensitive) ==
    IF j > Len(pattern) THEN TRUE
    ELSE IF i > Len(choice) THEN FALSE
    ELSE IF CharEqual(choice[i], pattern[j], case_sensitive)
         THEN CheapMatchesFrom(choice, pattern, i + 1, j + 1, case_sensitive)
         ELSE CheapMatchesFrom(choice, pattern, i + 1, j, case_sensitive)

\* SkimMatcherV2::default() matches with CaseMatching::Smart: case matters
\* exactly when the pattern holds an upper-case character.
ContainsUpper(pattern) == \E i \in 1..Len(pattern) : IsUpperChar(pattern[i])

\* matcher.fuzzy_match(choice, pattern): None when the pattern is no
\* subsequence of the choice, else Some(score). The score itself is the
\* library's; the model takes it from the table skim.
FuzzyMatch(choice, pattern) ==
    IF CheapMatchesFrom(choice, pattern, 1, 1, ContainsUpper(pattern))
    THEN Some(skim[<<choice, pattern>>])
    ELSE None

\* The loop over available_devices of the fuzzy branch: best_match after the
\* devices from i on, given best_match so far (0: None).
RECURSIVE FuzzyBestFrom(_, _, _, _, _)
FuzzyBestFrom(devs, target, i, best, best_score) ==
    IF i > Len(devs) THEN best
    ELSE LET score == FuzzyMatch(devs[i].name, target) IN
         IF score # None /\ (best = 0 \/ score[1] > best_score)
         THEN FuzzyBestFrom(devs, target, i + 1, i, score[1])
         ELSE FuzzyBestFrom(devs, target, i + 1, best, best_score)

\* The loop with `score >= best` in place of `score > best`.
RECURSIVE FuzzyBestFrom_later_tie(_, _, _, _, _)
FuzzyBestFrom_later_tie(devs, target, i, best, best_score) ==
    IF i > Len(devs) THEN best
    ELSE LET score == FuzzyMatch(devs[i].name, target) IN
         IF score # None /\ (best = 0 \/ score[1] >= best_score)
         THEN FuzzyBestFrom_later_tie(devs, target, i + 1, i, score[1])
         ELSE FuzzyBestFrom_later_tie(devs, target, i + 1, best, best_score)

FuzzyFind_later_tie(devs, target) == FuzzyBestFrom_later_tie(devs, target, 1, 0, 0)

\* The fuzzy branch: the index of the device chosen, 0 for no match.
FuzzyFind(devs, target) == FuzzyBestFrom(devs, target, 1, 0, 0)

\* available_devices.iter().find(|d| &d.name == target_device_name) from
\* devs[i] on: the index of the device found, 0 for none.
RECURSIVE ExactFindFrom(_, _, _)
ExactFindFrom(devs, target, i) ==
    IF i > Len(devs) THEN 0
    ELSE IF devs[i].name = target THEN i
    ELSE ExactFindFrom(devs, target, i + 1)

\* rposition in place of find: the last device of that name.
RECURSIVE ExactFindBack(_, _, _)
ExactFindBack(devs, target, i) ==
    IF i = 0 THEN 0
    ELSE IF devs[i].name = target THEN i
    ELSE ExactFindBack(devs, target, i - 1)

ExactFind_last(devs, target) == ExactFindBack(devs, target, Len(devs))

\* The exact branch of the pipelines comparing with eq_ignore_ascii_case.
RECURSIVE ExactFindFrom_ignore_case(_, _, _)
ExactFindFrom_ignore_case(devs, target, i) ==
    IF i > Len(devs) THEN 0
    ELSE IF Lower(devs[i].name) = Lower(target) THEN i
    ELSE ExactFindFrom_ignore_case(devs, target, i + 1)

ExactFind_ignore_case(devs, target) == ExactFindFrom_ignore_case(devs, target, 1)

ExactFind(devs, target) == ExactFindFrom(devs, target, 1)

\* ------------------------------------------------------------ collaborators
\* What the bundled PowerShell module does with a Set-AudioDevice call.
CommitOutcomes == {"ok", "failed"}

\* One call of the commit collaborator, as the pipelines record it: the kind
\* and the device id it was given, and whether it succeeded.
Commit(kind, id, set) == [kind |-> kind, id |-> id, ok |-> set.ok]

set_default_output_device(device_id, outcome) ==
    IF outcome = "ok" THEN Ok(<<>>) ELSE Err(<<"PowerShell command failed">>)

set_default_input_device(device_id, outcome) ==
    IF outcome = "ok" THEN Ok(<<>>)
    ELSE Err(<<"PowerShell command for input device failed">>)

\* ------------------------------------------------------------ switch pipeline
\* What one pipeline call did: the index of the device it resolved (0: none),
\* the commit calls it made, and the Result it returned.
Pipeline(resolved, commits, result) ==
    [resolved |-> resolved, commits |-> commits, result |-> result]

\* The output pipeline returning the target name in place of the name of the
\* device it resolved.
find_and_set_output_device_returns_target(target_device_name, available_devices, cfg, outcome) ==
    LET found == IF cfg.fuzzy_match
                 THEN FuzzyFind(available_devices, target_device_name)
                 ELSE ExactFind(available_devices, target_device_name)
    IN  IF found = 0
        THEN Pipeline(0, <<>>,
                      Err(IF cfg.fuzzy_match THEN <<"No fuzzy match found">>
                                             ELSE <<"No exact match found">>))
        ELSE LET device == available_devices[found]
                 set == set_default_output_device(device.id, outcome)
             IN  Pipeline(found, <<Commit("Output", device.id, set)>>,
                          IF set.ok THEN Ok(target_device_name) ELSE set)

find_and_set_output_device(target_device_name, available_devices, cfg, outcome) ==
    LET found == IF cfg.fuzzy_match
                 THEN FuzzyFind(available_devices, target_device_name)
                 ELSE ExactFind(available_devices, target_device_name)
    IN  IF found = 0
        THEN Pipeline(0, <<>>,
                      Err(IF cfg.fuzzy_match THEN <<"No fuzzy match found">>
                                             ELSE <<"No exact match found">>))
        ELSE LET device == available_devices[found]
                 set == set_default_output_device(device.id, outcome)
             IN  Pipeline(found, <<Commit("Output", device.id, set)>>,
                          IF set.ok THEN Ok(device.name) ELSE set)

\* The input pipeline committing through set_default_output_device.
find_and_set_input_device_as_output(target_device_name, available_devices, cfg, outcome) ==
    LET found == IF cfg.fuzzy_match
                 THEN FuzzyFind(available_devices, target_device_name)
                 ELSE ExactFind(available_devices, target_device_name)
    IN  IF found = 0
        THEN Pipeline(0, <<>>,
                      Err(IF cfg.fuzzy_match
                          THEN <<"No fuzzy match found for input device">>
                          ELSE <<"No exact match found for input device">>))
        ELSE LET device == available_devices[found]
                 set == set_default_output_device(device.id, outcome)
             IN  Pipeline(found, <<Commit("Output", device.id, set)>>,
                          IF set.ok THEN Ok(device.name) ELSE set)

find_and_set_input_device(target_device_name, available_devices, cfg, outcome) ==
    LET found == IF cfg.fuzzy_match
                 THEN FuzzyFind(available_devices, target_device_name)
                 ELSE ExactFind(available_devices, target_device_name)
    IN  IF found = 0
        THEN Pipeline(0, <<>>,
                      Err(IF cfg.fuzzy_match
                          THEN <<"No fuzzy match found for input device">>
                          ELSE <<"No exact match found for input device">>))
        ELSE LET device == available_devices[found]
                 set == set_default_input_device(device.id, outcome)
             IN  Pipeline(found, <<Commit("Input", device.id, set)>>,
                          IF set.ok THEN Ok(device.name) ELSE set)

\* ------------------------------------------------------------- configuration
\* A [[hotkeys]] entry of config.toml, as main.rs reads it.
HotkeyMapping(keys, device_name, input_device_name) ==
    [keys |-> keys, device_name |-> device_name,
     input_device_name |-> input_device_name]

\* What config.toml holds: status says whether it can be read and parsed; the
\* keys algorithm and threshold are the MatchPolicy keys of the specification.
ConfigFile(status, fuzzy_match, algorithm, threshold, hotkeys) ==
    [status |-> status, fuzzy_match |-> fuzzy_match, algorithm |-> algorithm,
     threshold |-> threshold, hotkeys |-> hotkeys]

\* struct Config: serde keeps the fields the struct declares and drops every
\* other key of the file.
Config(file) == [fuzzy_match |-> file.fuzzy_match, hotkeys |-> file.hotkeys]

load_config(file) ==
    IF file.status = "ok" THEN Ok(Config(file))
    ELSE Err(<<"Failed to read or parse config.toml">>)

\* --------------------------------------------------------- device enumeration
\* What the OS answers an enumeration: whether a call of it fails, and the
\* endpoints of the collection, each with the id and the friendly name read
\* from it (an id of <<>> is the empty string).
OsAnswer(fails, endpoints) == [fails |-> fails, endpoints |-> endpoints]

Endpoint(id, name) == [id |-> id, name |-> name]

\* The loop keeping every endpoint that has an id, whatever was read of its
\* name.
RECURSIVE ListFrom_keeps_unnamed(_, _)
ListFrom_keeps_unnamed(endpoints, i) ==
    IF i > Len(endpoints) THEN <<>>
    ELSE LET e == endpoints[i] IN
         IF e.id # <<>>
         THEN <<[id |-> e.id, name |-> e.name]>> \o ListFrom_keeps_unnamed(endpoints, i + 1)
         ELSE ListFrom_keeps_unnamed(endpoints, i + 1)

\* The loop of list_output_devices / list_input_devices from endpoint i on.
RECURSIVE ListFrom(_, _)
ListFrom(endpoints, i) ==
    IF i > Len(endpoints) THEN <<>>
    ELSE LET e == endpoints[i] IN
         IF e.id # <<>> /\ e.name # UnknownName /\ e.name # InvalidName
         THEN <<[id |-> e.id, name |-> e.name]>> \o ListFrom(endpoints, i + 1)
         ELSE ListFrom(endpoints, i + 1)

list_output_devices(os) ==
    IF os.fails THEN Err(<<"output enumeration failed">>)
    ELSE Ok(ListFrom(os.endpoints, 1))

list_input_devices(os) ==
    IF os.fails THEN Err(<<"input enumeration failed">>)
    ELSE Ok(ListFrom(os.endpoints, 1))

\* The OS answer whose endpoints are exactly the devices devs.
AnswerOf(devs) == OsAnswer(FALSE, devs)

FailedAnswer == OsAnswer(TRUE, <<>>)

\* --------------------------------------------------------- startup validation
\* format!("{} (hotkey: {})", name, keys)
MissingEntry(name, keys) == [name |-> name, keys |-> keys]

\* The exact check comparing names without regard to case.
DeviceFound_ignore_case(devs, name, cfg) ==
    IF cfg.fuzzy_match
    THEN \E i \in 1..Len(devs) : FuzzyMatch(devs[i].name, name) # None
    ELSE \E i \in 1..Len(devs) : Lower(devs[i].name) = Lower(name)

\* Whether validation finds a configured name among the devices.
DeviceFound(devs, name, cfg) ==
    IF cfg.fuzzy_match
    THEN \E i \in 1..Len(devs) : FuzzyMatch(devs[i].name, name) # None
    ELSE \E i \in 1..Len(devs) : devs[i].name = name

\* The loop over config.hotkeys from mapping i on: the missing output entries.
RECURSIVE MissingOutputFrom(_, _, _)
MissingOutputFrom(cfg, devs, i) ==
    IF i > Len(cfg.hotkeys) THEN <<>>
    ELSE LET m == cfg.hotkeys[i] IN
         (IF DeviceFound(devs, m.device_name, cfg) THEN <<>>
          ELSE <<MissingEntry(m.device_name, m.keys)>>)
         \o MissingOutputFrom(cfg, devs, i + 1)

RECURSIVE MissingInputFrom(_, _, _)
MissingInputFrom(cfg, devs, i) ==
    IF i > Len(cfg.hotkeys) THEN <<>>
    ELSE LET m == cfg.hotkeys[i] IN
         (IF m.input_device_name = None
             \/ DeviceFound(devs, m.input_device_name[1], cfg)
          THEN <<>>
          ELSE <<MissingEntry(m.input_device_name[1], m.keys)>>)
         \o MissingInputFrom(cfg, devs, i + 1)

\* The tuple validate_configured_devices returns, with whether its two
\* enumerations succeeded.
Validated(enumerated, mo, mi, ao, ai) ==
    [enumerated |-> enumerated, missing_output |-> mo, missing_input |-> mi,
     available_output |-> ao, available_input |-> ai]

\* The validation taking a failed enumeration for an empty device list.
validate_configured_devices_failed_as_empty(cfg, os_out, os_in) ==
    LET out == list_output_devices(os_out)
        inp == list_input_devices(os_in)
        outs == IF out.ok THEN out.val ELSE <<>>
        ins == IF inp.ok THEN inp.val ELSE <<>>
    IN  Validated(out.ok /\ inp.ok,
                  MissingOutputFrom(cfg, outs, 1),
                  MissingInputFrom(cfg, ins, 1),
                  NamesOf(outs), NamesOf(ins))

validate_configured_devices(cfg, os_out, os_in) ==
    LET out == list_output_devices(os_out)
        inp == list_input_devices(os_in)
    IN  IF ~out.ok THEN Validated(FALSE, <<>>, <<>>, <<>>, <<>>)
        ELSE IF ~inp.ok THEN Validated(FALSE, <<>>, <<>>, <<>>, <<>>)
        ELSE Validated(TRUE,
                       MissingOutputFrom(cfg, out.val, 1),
                       MissingInputFrom(cfg, inp.val, 1),
                       NamesOf(out.val), NamesOf(inp.val))

\* The sections of the message box show_missing_devices_notification shows,
\* None when it shows none.
show_missing_devices_notification(mo, mi, ao, ai) ==
    IF mo = <<>> /\ mi = <<>> THEN None
    ELSE Some([missing_output |-> mo, missing_input |-> mi,
               available_output |-> IF mo # <<>> /\ ao # <<>> THEN ao ELSE <<>>,
               available_input |-> IF mi # <<>> /\ ai # <<>> THEN ai ELSE <<>>])

\* Step 1.5 of run_tray_app: the validation and the notification it leads to,
\* with the answers of the OS it saw.
ValidationStep(cfg, os_out, os_in) ==
    LET v == validate_configured_devices(cfg, os_out, os_in) IN
    [seen |-> <<os_out, os_in>>,
     report |-> v,
     notification |->
        IF v.missing_output # <<>> \/ v.missing_input # <<>>
        THEN show_missing_devices_notification(
                 v.missing_output, v.missing_input,
                 v.available_output, v.available_input)
        ELSE None]

\* ------------------------------------------------------ hotkey registration
\* The id the OS registration gives the i-th configured hotkey, and an id
\* no configured hotkey has.
HotkeyId(i) == i

UnknownHotkeyId == 0

\* What the hotkey service does with the registrations of one session:
\* whether assembling the table fails as a whole, and which entries register.
RegistrationOutcome(fatal, registered) == [fatal |-> fatal, registered |-> registered]

\* The outcomes of the protocol runs: the table fails, every entry registers,
\* or every entry but the first registers.
RegistrationOutcomes(cfg) ==
    {RegistrationOutcome(TRUE, {}),
     RegistrationOutcome(FALSE, 1..Len(cfg.hotkeys)),
     RegistrationOutcome(FALSE, 2..Len(cfg.hotkeys))}

\* register_hotkeys stopping at the first entry that fails to register.
register_hotkeys_all_or_nothing(cfg, outcome) ==
    IF outcome.fatal \/ outcome.registered # 1..Len(cfg.hotkeys)
    THEN Err(<<"registration failed">>)
    ELSE Ok([id \in {HotkeyId(i) : i \in outcome.registered} |-> cfg.hotkeys[id]])

\* register_hotkeys(&manager, &config): the table of the entries that
\* registered, or the error.
register_hotkeys(cfg, outcome) ==
    IF outcome.fatal THEN Err(<<"registration failed">>)
    ELSE Ok([id \in {HotkeyId(i) : i \in outcome.registered} |-> cfg.hotkeys[id]])

\* ------------------------------------------------------------------ messages
\* AppMessage::Quit, and AppMessage::HotkeyError(text).
Quit == "Quit"

HotkeyError(text) == text

\* -------------------------------------------------------------- environment
\* The run's configuration files.
ProtocolHotkeys ==
    <<HotkeyMapping("Ctrl+Alt+1", Nameab, Some(Nameb)),
      HotkeyMapping("Ctrl+Alt+2", NameAb, None)>>

ConfigFiles ==
    {ConfigFile("ok", FALSE, "skim", 0, ProtocolHotkeys),
     ConfigFile("ok", TRUE, "levenshtein", 80, ProtocolHotkeys),
     ConfigFile("missing", FALSE, "skim", 0, <<>>)}

\* The answers of the OS to an enumeration of the render and of the capture
\* endpoints during the run.
RenderAnswers ==
    {FailedAnswer,
     OsAnswer(FALSE, <<Endpoint(<<"render", 1>>, Nameacb),
                       Endpoint(<<>>, NameAb),
                       Endpoint(<<"render", 3>>, UnknownName),
                       Endpoint(<<"render", 4>>, Nameab)>>)}

CaptureAnswers ==
    {FailedAnswer,
     AnswerOf(<<AudioDevice("capture", 1, Nameb)>>)}

\* A score table in which the score of a choice is g[choice] for every pattern.
SkimTable(g) == [p \in Names \X Names |-> g[p[1]]]

\* The score table of the protocol runs: every match scores alike.
ProtocolSkimTable == SkimTable([n \in Names |-> 1])

\* ---------------------------------------------------------------------- Init
NoHistory ==
    [sleeps |-> 0, found |-> FALSE, failed |-> FALSE, stores |-> 0,
     join |-> "none", listed |-> <<>>, late |-> 0]

Init ==
    /\ config_file \in ConfigFiles
    /\ config = None
    /\ skim = ProtocolSkimTable
    /\ cpc = "load_config"
    /\ validation = None
    /\ shutdown_signal = FALSE
    /\ channel = <<>>
    /\ lpc = "not_spawned"
    /\ hotkey_device_map = <<>>
    /\ available_output_devices = <<>>
    /\ available_input_devices = <<>>
    /\ receiver = <<>>
    /\ native = 0
    /\ message_handled = FALSE
    /\ last = None
    /\ com_inits = 0
    /\ os_hotkeys = {}
    /\ hist = NoHistory

\* --------------------------------------------------------------- Coordinator
\* The process lives until main returns or calls process::exit.
ProcessAlive == cpc \notin {"done", "exited"}

\* The Listener's places between its spawn and its return.
ListenerPlaces ==
    {"com_init", "manager", "register", "list_output", "list_input",
     "poll_event", "peek", "check_shutdown", "idle", "sleeping",
     "cleanup", "com_uninit"}

\* The places of the Listener's poll loop.
LoopPlaces == {"poll_event", "peek", "check_shutdown", "idle", "sleeping"}

\* The senders alive when error_sender is moved into the Listener thread and
\* the menu callback holds none: only the Listener's.
SendersAlive_moved_into_thread ==
    IF lpc \in ListenerPlaces THEN {"error_sender_clone"} ELSE {}

\* The senders of the channel that are alive: error_sender of run_tray_app,
\* its clone moved into the Listener thread, quit_sender of the menu callback.
SendersAlive ==
    (IF cpc \in {"tray", "menu", "recv", "check", "store", "join"}
     THEN {"error_sender"} ELSE {})
    \cup (IF lpc \in ListenerPlaces THEN {"error_sender_clone"} ELSE {})
    \cup (IF cpc \in {"recv", "check", "store", "join"} THEN {"quit_sender"} ELSE {})

\* load_config()'s error answered with Config::default() in place of the
\* return of the error.
CoordLoadConfig_default_on_error ==
    /\ cpc = "load_config"
    /\ LET loaded == load_config(config_file) IN
       IF loaded.ok
       THEN config' = Some(loaded.val) /\ cpc' = "validate"
       ELSE config' = Some([fuzzy_match |-> FALSE, hotkeys |-> <<>>])
            /\ cpc' = "validate"
    /\ UNCHANGED <<config_file, skim, validation, shutdown_signal, channel, lpc,
                   com_inits, os_hotkeys,
                   hotkey_device_map, available_output_devices,
                   available_input_devices, receiver, native, message_handled,
                   last, hist>>

\* 1. load_config(): an error is returned to main.
CoordLoadConfig ==
    /\ cpc = "load_config"
    /\ LET loaded == load_config(config_file) IN
       IF loaded.ok
       THEN config' = Some(loaded.val) /\ cpc' = "validate"
       ELSE config' = config /\ cpc' = "failed"
    /\ UNCHANGED <<config_file, skim, validation, shutdown_signal, channel, lpc,
                   com_inits, os_hotkeys,
                   hotkey_device_map, available_output_devices,
                   available_input_devices, receiver, native, message_handled,
                   last, hist>>

\* The answers of the OS to the two enumerations of the startup validation
\* in the protocol runs.
ValidationAnswers == (RenderAnswers \ {FailedAnswer}) \X (CaptureAnswers \ {FailedAnswer})

\* The validation trying each output device it finds by switching to it.
ValidateWith_switches(answers) ==
    /\ cpc = "validate"
    /\ \E os \in answers, outcome \in CommitOutcomes :
         /\ validation' = Some(ValidationStep(config[1], os[1], os[2]))
         /\ last' = IF list_output_devices(os[1]).ok /\ config[1].hotkeys # <<>>
                    THEN Some([id |-> HotkeyId(1), state |-> "Pressed",
                               looked_up |-> TRUE, warned |-> FALSE,
                               out |-> Some(find_and_set_output_device(
                                                config[1].hotkeys[1].device_name,
                                                list_output_devices(os[1]).val,
                                                config[1], outcome)),
                               inp |-> None])
                    ELSE last
    /\ cpc' = "spawn"
    /\ UNCHANGED <<config_file, config, skim, com_inits, os_hotkeys,
                   shutdown_signal, channel, lpc,
                   hotkey_device_map, available_output_devices,
                   available_input_devices, receiver, native, message_handled,
                   hist>>

\* 1.5. validate_configured_devices and the notification, given the pairs of
\* answers the OS may give the two enumerations.
ValidateWith(answers) ==
    /\ cpc = "validate"
    /\ \E os \in answers :
         validation' = Some(ValidationStep(config[1], os[1], os[2]))
    /\ cpc' = "spawn"
    /\ UNCHANGED <<config_file, config, skim, com_inits, os_hotkeys,
                   shutdown_signal, channel, lpc,
                   hotkey_device_map, available_output_devices,
                   available_input_devices, receiver, native, message_handled,
                   last, hist>>

CoordValidate == ValidateWith(ValidationAnswers)

\* 2., 3. The flag, the channel, and the Listener thread.
CoordSpawn ==
    /\ cpc = "spawn"
    /\ shutdown_signal' = FALSE
    /\ channel' = <<>>
    /\ lpc' = "com_init"
    /\ cpc' = "tray"
    /\ UNCHANGED <<config_file, config, skim, com_inits, os_hotkeys,
                   validation, hotkey_device_map,
                   available_output_devices, available_input_devices, receiver,
                   native, message_handled, last, hist>>

\* 4. TrayItem::new(...)?: an error is returned to main.
CoordTray ==
    /\ cpc = "tray"
    /\ \E created \in BOOLEAN : cpc' = IF created THEN "menu" ELSE "failed"
    /\ UNCHANGED <<config_file, config, skim, com_inits, os_hotkeys,
                   validation, shutdown_signal,
                   channel, lpc, hotkey_device_map, available_output_devices,
                   available_input_devices, receiver, native, message_handled,
                   last, hist>>

\* tray.add_menu_item("Quit", ...)?: an error is returned to main.
CoordMenu ==
    /\ cpc = "menu"
    /\ \E added \in BOOLEAN : cpc' = IF added THEN "recv" ELSE "failed"
    /\ UNCHANGED <<config_file, config, skim, com_inits, os_hotkeys,
                   validation, shutdown_signal,
                   channel, lpc, hotkey_device_map, available_output_devices,
                   available_input_devices, receiver, native, message_handled,
                   last, hist>>

\* The polling step taking an error message of the Listener as a reason to
\* shut down.
CoordRecv_error_quits ==
    /\ cpc = "recv"
    /\ IF channel # <<>>
       THEN /\ channel' = Tail(channel)
            /\ shutdown_signal' = shutdown_signal
            /\ cpc' = "store"
            /\ hist' = hist
       ELSE /\ cpc' = "check"
            /\ UNCHANGED <<channel, shutdown_signal, hist>>
    /\ UNCHANGED <<config_file, config, skim, com_inits, os_hotkeys,
                   validation, lpc, hotkey_device_map,
                   available_output_devices, available_input_devices, receiver,
                   native, message_handled, last>>

\* The polling step logging an error message without taking it out of the
\* channel.
CoordRecv_keeps_errors ==
    /\ cpc = "recv"
    /\ IF channel # <<>>
       THEN /\ shutdown_signal' = shutdown_signal
            /\ IF Head(channel) = Quit
               THEN channel' = Tail(channel) /\ cpc' = "store"
               ELSE channel' = channel /\ cpc' = "check"
            /\ hist' = hist
       ELSE IF SendersAlive = {}
       THEN /\ shutdown_signal' = TRUE
            /\ hist' = [hist EXCEPT !.stores = @ + 1]
            /\ cpc' = "store"
            /\ UNCHANGED channel
       ELSE /\ cpc' = "check"
            /\ UNCHANGED <<channel, shutdown_signal, hist>>
    /\ UNCHANGED <<config_file, config, skim, com_inits, os_hotkeys,
                   validation, lpc, hotkey_device_map,
                   available_output_devices, available_input_devices, receiver,
                   native, message_handled, last>>

\* 5. error_receiver.try_recv() of the main event loop.
CoordRecv ==
    /\ cpc = "recv"
    /\ IF channel # <<>>
       THEN /\ channel' = Tail(channel)
            /\ shutdown_signal' = shutdown_signal
            /\ IF Head(channel) = Quit
               THEN cpc' = "store"
               ELSE cpc' = "check"
            /\ hist' = hist
       ELSE IF SendersAlive = {}
       THEN /\ shutdown_signal' = TRUE
            /\ hist' = [hist EXCEPT !.stores = @ + 1]
            /\ cpc' = "store"
            /\ UNCHANGED channel
       ELSE /\ cpc' = "check"
            /\ UNCHANGED <<channel, shutdown_signal, hist>>
    /\ UNCHANGED <<config_file, config, skim, com_inits, os_hotkeys,
                   validation, lpc, hotkey_device_map,
                   available_output_devices, available_input_devices, receiver,
                   native, message_handled, last>>

\* thread::sleep(100 ms), then the check of the flag that ends the loop.
CoordCheck ==
    /\ cpc = "check"
    /\ cpc' = IF shutdown_signal THEN "store" ELSE "recv"
    /\ UNCHANGED <<config_file, config, skim, com_inits, os_hotkeys,
                   validation, shutdown_signal,
                   channel, lpc, hotkey_device_map, available_output_devices,
                   available_input_devices, receiver, native, message_handled,
                   last, hist>>

\* The shutdown sequence without the store.
CoordStore_skipped ==
    /\ cpc = "store"
    /\ cpc' = "join"
    /\ UNCHANGED <<config_file, config, skim, com_inits, os_hotkeys,
                   validation, shutdown_signal,
                   channel, lpc, hotkey_device_map, available_output_devices,
                   available_input_devices, receiver, native, message_handled,
                   last, hist>>

\* The shutdown sequence unregistering the hotkeys from the main thread.
CoordStore_unregisters ==
    /\ cpc = "store"
    /\ shutdown_signal' = TRUE
    /\ os_hotkeys' = {}
    /\ hist' = [hist EXCEPT !.stores = @ + 1]
    /\ cpc' = "join"
    /\ UNCHANGED <<config_file, config, skim, com_inits,
                   validation, channel, lpc,
                   hotkey_device_map, available_output_devices,
                   available_input_devices, receiver, native, message_handled,
                   last>>

\* 6. shutdown_signal.store(true).
CoordStore ==
    /\ cpc = "store"
    /\ shutdown_signal' = TRUE
    /\ hist' = [hist EXCEPT !.stores = @ + 1]
    /\ cpc' = "join"
    /\ UNCHANGED <<config_file, config, skim, com_inits, os_hotkeys,
                   validation, channel, lpc,
                   hotkey_device_map, available_output_devices,
                   available_input_devices, receiver, native, message_handled,
                   last>>

\* The join followed by a drain of the channel: every message still queued
\* is received and logged before run_tray_app returns.
CoordJoin_drains_channel ==
    /\ cpc = "join"
    /\ lpc \in {"stopped", "panicked"}
    /\ hist' = [hist EXCEPT !.join = IF lpc = "panicked" THEN "error" ELSE "ok"]
    /\ channel' = <<>>
    /\ cpc' = "done"
    /\ UNCHANGED <<config_file, config, skim, com_inits, os_hotkeys,
                   validation, shutdown_signal,
                   lpc, hotkey_device_map, available_output_devices,
                   available_input_devices, receiver, native, message_handled,
                   last>>

\* hotkey_thread_handle.join(), its result logged, then Ok(()).
CoordJoin ==
    /\ cpc = "join"
    /\ lpc \in {"stopped", "panicked"}
    /\ hist' = [hist EXCEPT !.join = IF lpc = "panicked" THEN "error" ELSE "ok"]
    /\ cpc' = "done"
    /\ UNCHANGED <<config_file, config, skim, com_inits, os_hotkeys,
                   validation, shutdown_signal,
                   channel, lpc, hotkey_device_map, available_output_devices,
                   available_input_devices, receiver, native, message_handled,
                   last>>

\* main: run_tray_app returned Err; the message box, then process::exit(1).
MainExit ==
    /\ cpc = "failed"
    /\ cpc' = "exited"
    /\ UNCHANGED <<config_file, config, skim, com_inits, os_hotkeys,
                   validation, shutdown_signal,
                   channel, lpc, hotkey_device_map, available_output_devices,
                   available_input_devices, receiver, native, message_handled,
                   last, hist>>

\* ------------------------------------------------------------------ Listener
\* A GlobalHotKeyEvent.
HotkeyEvent(id, state) == [id |-> id, state |-> state]

\* What a dequeued event caused: whether the Binding Table was consulted,
\* whether the warning was logged, and what each pipeline did (None: not run).
Handled(event, looked_up, warned, out, inp) ==
    [id |-> event.id, state |-> event.state, looked_up |-> looked_up,
     warned |-> warned, out |-> out, inp |-> inp]

\* Whether a pipeline of a handled event returned Err.
SwitchFailed(handled) ==
    \/ handled.out # None /\ ~handled.out[1].result.ok
    \/ handled.inp # None /\ ~handled.inp[1].result.ok

\* An unknown id falling back to the first binding of the table.
HandleEvent_unknown_falls_back(event, out_outcome, in_outcome) ==
    IF event.state = "Pressed"
    THEN IF hotkey_device_map # <<>>
         THEN LET id == IF event.id \in DOMAIN hotkey_device_map THEN event.id
                        ELSE CHOOSE k \in DOMAIN hotkey_device_map : TRUE
                  mapping == hotkey_device_map[id]
              IN  Handled(event, TRUE, FALSE,
                      Some(find_and_set_output_device(
                               mapping.device_name, available_output_devices,
                               config[1], out_outcome)),
                      IF mapping.input_device_name # None
                      THEN Some(find_and_set_input_device(
                                    mapping.input_device_name[1],
                                    available_input_devices, config[1], in_outcome))
                      ELSE None)
         ELSE Handled(event, TRUE, TRUE, None, None)
    ELSE Handled(event, FALSE, FALSE, None, None)

\* The input pipeline run only after an output pipeline that returned Ok.
HandleEvent_input_needs_output(event, out_outcome, in_outcome) ==
    IF event.state = "Pressed"
    THEN IF event.id \in DOMAIN hotkey_device_map
         THEN LET mapping == hotkey_device_map[event.id]
                  out == find_and_set_output_device(
                             mapping.device_name, available_output_devices,
                             config[1], out_outcome)
              IN  Handled(event, TRUE, FALSE, Some(out),
                      IF out.result.ok /\ mapping.input_device_name # None
                      THEN Some(find_and_set_input_device(
                                    mapping.input_device_name[1],
                                    available_input_devices, config[1], in_outcome))
                      ELSE None)
         ELSE Handled(event, TRUE, TRUE, None, None)
    ELSE Handled(event, FALSE, FALSE, None, None)

\* The body without the test of event.state: a release dispatched as a press.
HandleEvent_any_state(event, out_outcome, in_outcome) ==
    IF event.id \in DOMAIN hotkey_device_map
    THEN LET mapping == hotkey_device_map[event.id] IN
         Handled(event, TRUE, FALSE,
             Some(find_and_set_output_device(
                      mapping.device_name, available_output_devices,
                      config[1], out_outcome)),
             IF mapping.input_device_name # None
             THEN Some(find_and_set_input_device(
                           mapping.input_device_name[1],
                           available_input_devices, config[1], in_outcome))
             ELSE None)
    ELSE Handled(event, TRUE, TRUE, None, None)

\* The body of `if let Ok(event) = receiver.try_recv()`.
HandleEvent(event, out_outcome, in_outcome) ==
    IF event.state = "Pressed"
    THEN IF event.id \in DOMAIN hotkey_device_map
         THEN LET mapping == hotkey_device_map[event.id] IN
              Handled(event, TRUE, FALSE,
                  Some(find_and_set_output_device(
                           mapping.device_name, available_output_devices,
                           config[1], out_outcome)),
                  IF mapping.input_device_name # None
                  THEN Some(find_and_set_input_device(
                                mapping.input_device_name[1],
                                available_input_devices, config[1], in_outcome))
                  ELSE None)
         ELSE Handled(event, TRUE, TRUE, None, None)
    ELSE Handled(event, FALSE, FALSE, None, None)

\* CoInitializeEx on the thread; a failure is reported and ends the thread.
ListenerComInit ==
    /\ ProcessAlive
    /\ lpc = "com_init"
    /\ \E ok \in BOOLEAN :
         IF ok THEN lpc' = "manager" /\ channel' = channel /\ com_inits' = 1
         ELSE /\ channel' = Append(channel, HotkeyError("Hotkey thread failed to initialize COM"))
              /\ com_inits' = 0
              /\ lpc' = "stopped"
    /\ UNCHANGED <<config_file, config, skim, os_hotkeys,
                   cpc, validation, shutdown_signal,
                   hotkey_device_map, available_output_devices,
                   available_input_devices, receiver, native, message_handled,
                   last, hist>>

\* GlobalHotKeyManager::new() failing without a message to the Coordinator.
ListenerManager_silent ==
    /\ ProcessAlive
    /\ lpc = "manager"
    /\ \E ok \in BOOLEAN :
         IF ok THEN lpc' = "register" /\ UNCHANGED com_inits
         ELSE /\ com_inits' = com_inits - 1
              /\ lpc' = "stopped"
    /\ UNCHANGED <<config_file, config, skim, os_hotkeys, cpc, validation,
                   shutdown_signal, channel, hotkey_device_map,
                   available_output_devices, available_input_devices, receiver,
                   native, message_handled, last, hist>>

\* 1. GlobalHotKeyManager::new().
ListenerManager ==
    /\ ProcessAlive
    /\ lpc = "manager"
    /\ \E ok \in BOOLEAN :
         IF ok THEN lpc' = "register" /\ channel' = channel /\ UNCHANGED com_inits
         ELSE /\ channel' = Append(channel, HotkeyError("Failed to create GlobalHotKeyManager"))
              /\ com_inits' = com_inits - 1
              /\ lpc' = "stopped"
    /\ UNCHANGED <<config_file, config, skim, os_hotkeys,
                   cpc, validation, shutdown_signal,
                   hotkey_device_map, available_output_devices,
                   available_input_devices, receiver, native, message_handled,
                   last, hist>>

\* The registration failure answered with AppMessage::Quit, to make the
\* application shut down.
ListenerRegister_sends_quit ==
    /\ ProcessAlive
    /\ lpc = "register"
    /\ \E outcome \in RegistrationOutcomes(config[1]) :
         LET r == register_hotkeys(config[1], outcome) IN
         /\ os_hotkeys' = {HotkeyId(i) : i \in outcome.registered}
         /\ IF r.ok
            THEN /\ hotkey_device_map' = r.val
                 /\ UNCHANGED com_inits
                 /\ lpc' = "list_output"
                 /\ channel' = channel
            ELSE /\ hotkey_device_map' = hotkey_device_map
                 /\ channel' = Append(channel, Quit)
                 /\ com_inits' = com_inits - 1
                 /\ lpc' = "stopped"
    /\ UNCHANGED <<config_file, config, skim,
                   cpc, validation, shutdown_signal,
                   available_output_devices, available_input_devices, receiver,
                   native, message_handled, last, hist>>

\* 2. register_hotkeys(&manager, &config).
ListenerRegister ==
    /\ ProcessAlive
    /\ lpc = "register"
    /\ \E outcome \in RegistrationOutcomes(config[1]) :
         LET r == register_hotkeys(config[1], outcome) IN
         /\ os_hotkeys' = {HotkeyId(i) : i \in outcome.registered}
         /\ IF r.ok
            THEN /\ hotkey_device_map' = r.val
                 /\ UNCHANGED com_inits
                 /\ lpc' = "list_output"
                 /\ channel' = channel
            ELSE /\ hotkey_device_map' = hotkey_device_map
                 /\ channel' = Append(channel, HotkeyError("Failed to register hotkeys"))
                 /\ com_inits' = com_inits - 1
                 /\ lpc' = "stopped"
    /\ UNCHANGED <<config_file, config, skim,
                   cpc, validation, shutdown_signal,
                   available_output_devices, available_input_devices, receiver,
                   native, message_handled, last, hist>>

\* 4. list_output_devices(), given the answers the OS may give. The function
\* calls CoInitializeEx itself and CoUninitialize before it returns Ok; an
\* error leaves it by `?` before that call, and the thread's own
\* CoUninitialize follows.
ListOutputWith(render_answers) ==
    /\ ProcessAlive
    /\ lpc = "list_output"
    /\ \E os \in render_answers :
         LET r == list_output_devices(os) IN
         /\ hist' = [hist EXCEPT !.listed = Append(@, os)]
         /\ IF r.ok
            THEN /\ available_output_devices' = r.val
                 /\ lpc' = "list_input"
                 /\ channel' = channel
                 /\ UNCHANGED com_inits
            ELSE /\ available_output_devices' = available_output_devices
                 /\ channel' = Append(channel, HotkeyError("Failed to list audio output devices"))
                 /\ com_inits' = (com_inits + 1) - 1
                 /\ lpc' = "stopped"
    /\ UNCHANGED <<config_file, config, skim, os_hotkeys,
                   cpc, validation, shutdown_signal,
                   hotkey_device_map, available_input_devices, receiver, native,
                   message_handled, last>>

ListenerListOutput == ListOutputWith(RenderAnswers)

\* list_input_devices(), given the answers the OS may give.
ListInputWith(capture_answers) ==
    /\ ProcessAlive
    /\ lpc = "list_input"
    /\ \E os \in capture_answers :
         LET r == list_input_devices(os) IN
         /\ hist' = [hist EXCEPT !.listed = Append(@, os)]
         /\ IF r.ok
            THEN /\ available_input_devices' = r.val
                 /\ lpc' = "poll_event"
                 /\ channel' = channel
                 /\ UNCHANGED com_inits
            ELSE /\ available_input_devices' = available_input_devices
                 /\ channel' = Append(channel, HotkeyError("Failed to list audio input devices"))
                 /\ com_inits' = (com_inits + 1) - 1
                 /\ lpc' = "stopped"
    /\ UNCHANGED <<config_file, config, skim, os_hotkeys,
                   cpc, validation, shutdown_signal,
                   hotkey_device_map, available_output_devices, receiver, native,
                   message_handled, last>>

ListenerListInput == ListInputWith(CaptureAnswers)

\* Loop step 1 with the blocking receiver.recv() in place of try_recv().
ListenerPollEvent_blocking ==
    /\ ProcessAlive
    /\ lpc = "poll_event"
    /\ receiver # <<>>
    /\ \E out_outcome \in CommitOutcomes, in_outcome \in CommitOutcomes :
         last' = Some(HandleEvent(Head(receiver), out_outcome, in_outcome))
    /\ receiver' = Tail(receiver)
    /\ hist' = [hist EXCEPT !.found = TRUE,
                            !.failed = @ \/ SwitchFailed(last'[1]),
                            !.late = IF shutdown_signal /\ @ < 2
                                     THEN @ + 1 ELSE @]
    /\ lpc' = "peek"
    /\ UNCHANGED <<config_file, config, skim, com_inits, os_hotkeys,
                   cpc, validation, shutdown_signal,
                   channel, hotkey_device_map, available_output_devices,
                   available_input_devices, native, message_handled>>

\* Loop step 1 with a failed switch propagated out of the loop.
ListenerPollEvent_failure_breaks ==
    /\ ProcessAlive
    /\ lpc = "poll_event"
    /\ IF receiver = <<>>
       THEN /\ hist' = [hist EXCEPT !.found = FALSE]
            /\ lpc' = "peek"
            /\ UNCHANGED <<receiver, last>>
       ELSE /\ \E out_outcome \in CommitOutcomes, in_outcome \in CommitOutcomes :
                 last' = Some(HandleEvent(Head(receiver), out_outcome, in_outcome))
            /\ receiver' = Tail(receiver)
            /\ hist' = [hist EXCEPT !.found = TRUE,
                                    !.failed = @ \/ SwitchFailed(last'[1]),
                                    !.late = IF shutdown_signal /\ @ < 2
                                             THEN @ + 1 ELSE @]
            /\ lpc' = IF SwitchFailed(last'[1]) THEN "cleanup" ELSE "peek"
    /\ UNCHANGED <<config_file, config, skim, com_inits, os_hotkeys,
                   cpc, validation, shutdown_signal,
                   channel, hotkey_device_map, available_output_devices,
                   available_input_devices, native, message_handled>>

\* Loop step 1: receiver.try_recv() and the handling of the event.
\* hist.late counts the events dequeued with the flag already set.
ListenerPollEvent ==
    /\ ProcessAlive
    /\ lpc = "poll_event"
    /\ IF receiver = <<>>
       THEN /\ hist' = [hist EXCEPT !.found = FALSE]
            /\ UNCHANGED <<receiver, last>>
       ELSE /\ \E out_outcome \in CommitOutcomes, in_outcome \in CommitOutcomes :
                 last' = Some(HandleEvent(Head(receiver), out_outcome, in_outcome))
            /\ receiver' = Tail(receiver)
            /\ hist' = [hist EXCEPT !.found = TRUE,
                                    !.failed = @ \/ SwitchFailed(last'[1]),
                                    !.late = IF shutdown_signal /\ @ < 2
                                             THEN @ + 1 ELSE @]
    /\ lpc' = "peek"
    /\ UNCHANGED <<config_file, config, skim, com_inits, os_hotkeys,
                   cpc, validation, shutdown_signal,
                   channel, hotkey_device_map, available_output_devices,
                   available_input_devices, native, message_handled>>

\* Loop step 2 as a `while PeekMessageW(...)` that dispatches every pending
\* message.
ListenerPeek_drains_all ==
    /\ ProcessAlive
    /\ lpc = "peek"
    /\ message_handled' = (native > 0)
    /\ native' = 0
    /\ last' = None
    /\ lpc' = "check_shutdown"
    /\ UNCHANGED <<config_file, config, skim, com_inits, os_hotkeys,
                   cpc, validation, shutdown_signal,
                   channel, hotkey_device_map, available_output_devices,
                   available_input_devices, receiver, hist>>

\* Loop step 2: PeekMessageW(PM_REMOVE), TranslateMessage, DispatchMessageW.
\* The `if let` block of step 1 has ended, and what it did with its event is
\* no longer held.
ListenerPeek ==
    /\ ProcessAlive
    /\ lpc = "peek"
    /\ message_handled' = (native > 0)
    /\ native' = IF native > 0 THEN native - 1 ELSE native
    /\ last' = None
    /\ lpc' = "check_shutdown"
    /\ UNCHANGED <<config_file, config, skim, com_inits, os_hotkeys,
                   cpc, validation, shutdown_signal,
                   channel, hotkey_device_map, available_output_devices,
                   available_input_devices, receiver, hist>>

\* Loop step 3 with swap(false) in place of load(): the Listener clears the
\* flag it has seen.
ListenerCheckShutdown_swaps ==
    /\ ProcessAlive
    /\ lpc = "check_shutdown"
    /\ lpc' = IF shutdown_signal THEN "cleanup" ELSE "idle"
    /\ shutdown_signal' = FALSE
    /\ UNCHANGED <<config_file, config, skim, com_inits, os_hotkeys, cpc,
                   validation, channel, hotkey_device_map,
                   available_output_devices, available_input_devices, receiver,
                   native, message_handled, last, hist>>

\* Loop step 3 with a break that waits for the event queue to be empty.
ListenerCheckShutdown_finishes_queue ==
    /\ ProcessAlive
    /\ lpc = "check_shutdown"
    /\ lpc' = IF shutdown_signal /\ receiver = <<>> THEN "cleanup" ELSE "idle"
    /\ UNCHANGED <<config_file, config, skim, com_inits, os_hotkeys,
                   cpc, validation, shutdown_signal,
                   channel, hotkey_device_map, available_output_devices,
                   available_input_devices, receiver, native, message_handled,
                   last, hist>>

\* Loop step 3: shutdown_signal.load(); break when set.
ListenerCheckShutdown ==
    /\ ProcessAlive
    /\ lpc = "check_shutdown"
    /\ lpc' = IF shutdown_signal THEN "cleanup" ELSE "idle"
    /\ UNCHANGED <<config_file, config, skim, com_inits, os_hotkeys,
                   cpc, validation, shutdown_signal,
                   channel, hotkey_device_map, available_output_devices,
                   available_input_devices, receiver, native, message_handled,
                   last, hist>>

\* Loop step 4: sleep when no message was handled and the receiver is empty.
\* hist.sleeps counts the sleeps entered with the flag already set.
ListenerIdle ==
    /\ ProcessAlive
    /\ lpc = "idle"
    /\ IF ~message_handled /\ receiver = <<>>
       THEN /\ lpc' = "sleeping"
            /\ hist' = IF shutdown_signal /\ hist.sleeps < 2
                       THEN [hist EXCEPT !.sleeps = @ + 1] ELSE hist
       ELSE /\ lpc' = "poll_event"
            /\ hist' = hist
    /\ UNCHANGED <<config_file, config, skim, com_inits, os_hotkeys,
                   cpc, validation, shutdown_signal,
                   channel, hotkey_device_map, available_output_devices,
                   available_input_devices, receiver, native, message_handled,
                   last>>

\* The sleep's end followed by a fresh enumeration of the output devices.
ListenerWake_re_enumerates ==
    /\ ProcessAlive
    /\ lpc = "sleeping"
    /\ lpc' = "poll_event"
    /\ \E os \in RenderAnswers :
         LET r == list_output_devices(os) IN
         available_output_devices' = IF r.ok THEN r.val ELSE <<>>
    /\ UNCHANGED <<config_file, config, skim, com_inits, os_hotkeys,
                   cpc, validation, shutdown_signal,
                   channel, hotkey_device_map, available_input_devices,
                   receiver, native, message_handled, last, hist>>

\* thread::sleep(10 ms) returns.
ListenerWake ==
    /\ ProcessAlive
    /\ lpc = "sleeping"
    /\ lpc' = "poll_event"
    /\ UNCHANGED <<config_file, config, skim, com_inits, os_hotkeys,
                   cpc, validation, shutdown_signal,
                   channel, hotkey_device_map, available_output_devices,
                   available_input_devices, receiver, native, message_handled,
                   last, hist>>

\* manager.unregister_all(&hotkeys) with the ids in hotkeys, when left are the
\* ids whose unregistration fails: the ids still registered, and the result.
unregister_all(registered, hotkeys, left) ==
    [registered |-> (registered \ hotkeys) \cup left,
     result |-> IF left = {} THEN Ok(<<>>) ELSE Err(<<"unregistration failed">>)]

\* The cleanup returning after the report of a failed unregistration.
ListenerUnregister_failure_returns ==
    /\ ProcessAlive
    /\ lpc = "cleanup"
    /\ \E left \in SUBSET (DOMAIN hotkey_device_map) :
         LET u == unregister_all(os_hotkeys, DOMAIN hotkey_device_map, left) IN
         /\ os_hotkeys' = u.registered
         /\ channel' = IF u.result.ok THEN channel
                       ELSE Append(channel, HotkeyError("Failed to unregister hotkeys"))
         /\ lpc' = IF u.result.ok THEN "com_uninit" ELSE "stopped"
    /\ UNCHANGED <<config_file, config, skim, com_inits, cpc, validation,
                   shutdown_signal, hotkey_device_map, available_output_devices,
                   available_input_devices, receiver, native, message_handled,
                   last, hist>>

\* Cleanup: manager.unregister_all(&hotkeys) with the hotkeys register_hotkeys
\* returned; a failure is reported.
ListenerUnregister ==
    /\ ProcessAlive
    /\ lpc = "cleanup"
    /\ \E left \in SUBSET (DOMAIN hotkey_device_map) :
         LET u == unregister_all(os_hotkeys, DOMAIN hotkey_device_map, left) IN
         /\ os_hotkeys' = u.registered
         /\ channel' = IF u.result.ok THEN channel
                       ELSE Append(channel, HotkeyError("Failed to unregister hotkeys"))
    /\ lpc' = "com_uninit"
    /\ UNCHANGED <<config_file, config, skim, com_inits, cpc, validation,
                   shutdown_signal, hotkey_device_map, available_output_devices,
                   available_input_devices, receiver, native, message_handled,
                   last, hist>>

\* CoUninitialize(), and the thread function returns.
ListenerComUninit ==
    /\ ProcessAlive
    /\ lpc = "com_uninit"
    /\ com_inits' = com_inits - 1
    /\ lpc' = "stopped"
    /\ UNCHANGED <<config_file, config, skim, os_hotkeys,
                   cpc, validation, shutdown_signal,
                   channel, hotkey_device_map, available_output_devices,
                   available_input_devices, receiver, native, message_handled,
                   last, hist>>

\* A collaborator call of the thread panics instead of returning: the thread
\* unwinds and join() will report it.
ListenerPanic ==
    /\ ProcessAlive
    /\ lpc \in {"manager", "peek"}
    /\ lpc' = "panicked"
    /\ UNCHANGED <<config_file, config, skim, com_inits, os_hotkeys,
                   cpc, validation, shutdown_signal,
                   channel, hotkey_device_map, available_output_devices,
                   available_input_devices, receiver, native, message_handled,
                   last, hist>>

\* ----------------------------------------------------------------- the world
\* The hotkey events of the model: a press of each configured hotkey and of
\* an id no hotkey has, and a release.
HotkeyEvents ==
    {HotkeyEvent(HotkeyId(i), "Pressed") : i \in 1..Len(ProtocolHotkeys)}
    \cup {HotkeyEvent(UnknownHotkeyId, "Pressed"), HotkeyEvent(HotkeyId(1), "Released")}

\* The OS delivers a hotkey event to the global event channel.
OsHotkey ==
    /\ ProcessAlive
    /\ lpc \in LoopPlaces
    /\ Len(receiver) < MaxEvents
    /\ \E event \in HotkeyEvents : receiver' = Append(receiver, event)
    /\ UNCHANGED <<config_file, config, skim, com_inits, os_hotkeys,
                   cpc, validation, shutdown_signal,
                   channel, lpc, hotkey_device_map, available_output_devices,
                   available_input_devices, native, message_handled, last, hist>>

\* A native window message is posted to the Listener thread.
OsNative ==
    /\ ProcessAlive
    /\ lpc \in LoopPlaces
    /\ native < MaxNative
    /\ native' = native + 1
    /\ UNCHANGED <<config_file, config, skim, com_inits, os_hotkeys,
                   cpc, validation, shutdown_signal,
                   channel, lpc, hotkey_device_map, available_output_devices,
                   available_input_devices, receiver, message_handled, last, hist>>

\* The user picks "Quit": the menu callback sends AppMessage::Quit.
TrayQuit ==
    /\ "quit_sender" \in SendersAlive
    /\ Len(SelectSeq(channel, LAMBDA m : m = Quit)) < MaxQuit
    /\ channel' = Append(channel, Quit)
    /\ UNCHANGED <<config_file, config, skim, com_inits, os_hotkeys,
                   cpc, validation, shutdown_signal,
                   lpc, hotkey_device_map, available_output_devices,
                   available_input_devices, receiver, native, message_handled,
                   last, hist>>

\* ------------------------------------------------------------ specifications
CoordinatorNext ==
    \/ CoordLoadConfig
    \/ CoordValidate
    \/ CoordSpawn
    \/ CoordTray
    \/ CoordMenu
    \/ CoordRecv
    \/ CoordCheck
    \/ CoordStore
    \/ CoordJoin
    \/ MainExit

ListenerNext ==
    \/ ListenerComInit
    \/ ListenerManager
    \/ ListenerRegister
    \/ ListenerListOutput
    \/ ListenerListInput
    \/ ListenerPollEvent
    \/ ListenerPeek
    \/ ListenerCheckShutdown
    \/ ListenerIdle
    \/ ListenerWake
    \/ ListenerUnregister
    \/ ListenerComUninit

WorldNext == OsHotkey \/ OsNative \/ TrayQuit

Next == CoordinatorNext \/ ListenerNext \/ ListenerPanic \/ WorldNext

Spec == Init /\ [][Next]_vars

\* The program when every collaborator call returns, with the Listener thread
\* scheduled: a step of it that stays possible is eventually taken.
NextReturning == CoordinatorNext \/ ListenerNext \/ WorldNext

\* The fair runs start with the configuration file that loads and asks for
\* exact matching.
FairInit == Init /\ config_file.status = "ok" /\ ~config_file.fuzzy_match

FairSpec == FairInit /\ [][NextReturning]_vars /\ WF_vars(ListenerNext)

\* The program when every collaborator call returns, with both threads
\* scheduled: a step of the Coordinator or of the Listener that stays
\* possible is eventually taken.
FairSpecBoth ==
    /\ FairInit
    /\ [][NextReturning]_vars
    /\ WF_vars(ListenerNext)
    /\ WF_vars(CoordinatorNext)

\* ------------------------------------------------- the matcher on all inputs
\* The switch pipelines and the validation applied to every device list of up
\* to MaxDevices devices, every target name, every MatchPolicy and every
\* scoring of the devices listed: the Listener stands in its loop with one press of the one
\* configured hotkey waiting, or the Coordinator stands before the
\* validation and goes on to spawn the Listener.
MatchPolicies ==
    {[fuzzy_match |-> FALSE, algorithm |-> "skim", threshold |-> 0],
     [fuzzy_match |-> TRUE, algorithm |-> "skim", threshold |-> 0],
     [fuzzy_match |-> TRUE, algorithm |-> "levenshtein", threshold |-> 80]}

\* Another name than n: the input target that goes with the output target n.
OtherName(n) ==
    CASE n = NameAb -> Nameb [] n = Nameab -> NameAb
      [] n = Nameacb -> Nameab [] OTHER -> Nameacb

MatchConfigFile(policy, target, with_input) ==
    ConfigFile("ok", policy.fuzzy_match, policy.algorithm, policy.threshold,
               <<HotkeyMapping("Ctrl+Alt+1", target,
                               IF with_input THEN Some(OtherName(target)) ELSE None)>>)

\* The capture devices with the names of the render devices devs.
CaptureLike(devs) == [i \in 1..Len(devs) |-> AudioDevice("capture", i, devs[i].name)]

\* The pairs of answers to the validation's enumerations: either fails, or
\* both list the same names.
AllValidationAnswers ==
    {<<FailedAnswer, AnswerOf(<<>>)>>}
    \cup {<<AnswerOf(d), FailedAnswer>> : d \in DeviceLists("render")}
    \cup {<<AnswerOf(d), AnswerOf(CaptureLike(d))>> : d \in DeviceLists("render")}

\* The Listener in its loop, its snapshots holding the same names in the
\* same order for both flows.
InitMatchSwitch ==
    /\ \E policy \in MatchPolicies, target \in Names, with_input \in BOOLEAN :
         config_file = MatchConfigFile(policy, target, with_input)
    /\ config = Some(Config(config_file))
    /\ available_output_devices \in DeviceLists("render")
    /\ available_input_devices = CaptureLike(available_output_devices)
    /\ LET present == {available_output_devices[i].name :
                          i \in 1..Len(available_output_devices)}
       IN  \E g \in [present -> 1..MaxScore] :
             /\ (config_file.fuzzy_match /\ config_file.algorithm = "skim")
                \/ g = [n \in present |-> 1]
             /\ skim = SkimTable([n \in Names |-> IF n \in present THEN g[n] ELSE 1])
    /\ validation = Some(ValidationStep(config[1], AnswerOf(available_output_devices),
                                        AnswerOf(available_input_devices)))
    /\ cpc = "recv"
    /\ shutdown_signal = FALSE
    /\ channel = <<>>
    /\ lpc = "poll_event"
    /\ hotkey_device_map =
         register_hotkeys(config[1], RegistrationOutcome(FALSE, {1})).val
    /\ receiver = <<HotkeyEvent(HotkeyId(1), "Pressed")>>
    /\ native = 0
    /\ message_handled = FALSE
    /\ last = None
    /\ com_inits = 1
    /\ os_hotkeys = DOMAIN hotkey_device_map
    /\ hist = [NoHistory EXCEPT !.listed = <<AnswerOf(available_output_devices),
                                            AnswerOf(available_input_devices)>>]

\* The Coordinator before the validation.
InitMatchValidate ==
    /\ \E policy \in MatchPolicies, target \in Names, with_input \in BOOLEAN :
         /\ policy.algorithm = "skim"
         /\ config_file = MatchConfigFile(policy, target, with_input)
    /\ config = Some(Config(config_file))
    /\ skim = ProtocolSkimTable
    /\ cpc = "validate"
    /\ validation = None
    /\ shutdown_signal = FALSE
    /\ channel = <<>>
    /\ lpc = "not_spawned"
    /\ hotkey_device_map = <<>>
    /\ available_output_devices = <<>>
    /\ available_input_devices = <<>>
    /\ receiver = <<>>
    /\ native = 0
    /\ message_handled = FALSE
    /\ last = None
    /\ com_inits = 0
    /\ os_hotkeys = {}
    /\ hist = NoHistory

InitMatch == InitMatchSwitch \/ InitMatchValidate

MatchValidate == ValidateWith(AllValidationAnswers)

NextMatch == ListenerPollEvent \/ MatchValidate \/ CoordSpawn

SpecMatch == InitMatch /\ [][NextMatch]_vars

\* ------------------------------------------------------ the loop under load
\* The sequences of up to n hotkey events.
EventBursts(n) == UNION {[1..k -> HotkeyEvents] : k \in 0..n}

\* The Listener at the top of an iteration of its loop, with the protocol's
\* exact-matching configuration, every hotkey registered and both snapshots
\* taken, while events and native messages have piled up.
InitLoop ==
    /\ config_file = ConfigFile("ok", FALSE, "skim", 0, ProtocolHotkeys)
    /\ config = Some(Config(config_file))
    /\ skim = ProtocolSkimTable
    /\ \E os \in ValidationAnswers :
         /\ validation = Some(ValidationStep(config[1], os[1], os[2]))
         /\ available_output_devices = list_output_devices(os[1]).val
         /\ available_input_devices = list_input_devices(os[2]).val
         /\ hist = [NoHistory EXCEPT !.listed = <<os[1], os[2]>>]
    /\ cpc = "recv"
    /\ shutdown_signal = FALSE
    /\ channel = <<>>
    /\ lpc = "poll_event"
    /\ hotkey_device_map =
         register_hotkeys(config[1],
             RegistrationOutcome(FALSE, 1..Len(config[1].hotkeys))).val
    /\ os_hotkeys = DOMAIN hotkey_device_map
    /\ receiver \in EventBursts(MaxBurst)
    /\ native \in 0..MaxBurst
    /\ message_handled = FALSE
    /\ last = None
    /\ com_inits = 1

\* The iterations of the loop, and the shutdown that ends them.
NextLoop ==
    \/ ListenerPollEvent
    \/ ListenerPeek
    \/ ListenerCheckShutdown
    \/ ListenerIdle
    \/ ListenerWake
    \/ OsHotkey
    \/ OsNative
    \/ TrayQuit
    \/ CoordRecv
    \/ CoordCheck
    \/ CoordStore

SpecLoop == InitLoop /\ [][NextLoop]_vars

\* ------------------------------------------------- enumeration on all inputs
\* What an enumeration reads of an endpoint's friendly name: a name, or one
\* of the two marks of a name it could not read.
EndpointNames == {Nameab, Nameb, UnknownName, InvalidName}

\* The collections of n endpoints of a flow: each has its id or an empty
\* one, and a name read or not.
EndpointsOfLen(flow, n) ==
    {[i \in 1..n |-> Endpoint(IF f[i].has_id THEN <<flow, i>> ELSE <<>>, f[i].name)] :
        f \in [1..n -> [has_id : BOOLEAN, name : EndpointNames]]}

\* The answers of the OS to an enumeration of the flow: it fails, or it
\* hands a collection of up to MaxEndpoints endpoints.
AllAnswers(flow) ==
    {FailedAnswer}
    \cup UNION {{OsAnswer(FALSE, e) : e \in EndpointsOfLen(flow, n)} :
                   n \in 0..MaxEndpoints}

\* The Listener before its two enumerations, with the protocol's
\* exact-matching configuration and every hotkey registered.
InitList ==
    /\ config_file = ConfigFile("ok", FALSE, "skim", 0, ProtocolHotkeys)
    /\ config = Some(Config(config_file))
    /\ skim = ProtocolSkimTable
    /\ \E os \in ValidationAnswers :
         validation = Some(ValidationStep(config[1], os[1], os[2]))
    /\ cpc = "recv"
    /\ shutdown_signal = FALSE
    /\ channel = <<>>
    /\ lpc = "list_output"
    /\ hotkey_device_map =
         register_hotkeys(config[1],
             RegistrationOutcome(FALSE, 1..Len(config[1].hotkeys))).val
    /\ os_hotkeys = DOMAIN hotkey_device_map
    /\ available_output_devices = <<>>
    /\ available_input_devices = <<>>
    /\ receiver = <<>>
    /\ native = 0
    /\ message_handled = FALSE
    /\ last = None
    /\ com_inits = 1
    /\ hist = NoHistory

ListOutputAll == ListOutputWith(AllAnswers("render"))

ListInputAll == ListInputWith(AllAnswers("capture"))

NextList == ListOutputAll \/ ListInputAll

SpecList == InitList /\ [][NextList]_vars

\* ===================================================================== claims
\* The event the Listener handled last was a press of a registered id: both
\* the table lookup and the output pipeline ran.
PressHandled ==
    /\ last # None
    /\ last[1].state = "Pressed"
    /\ last[1].id \in DOMAIN hotkey_device_map

\* The binding of the press handled last.
PressedMapping == hotkey_device_map[last[1].id]

\* ------------------------------------------------------------------------ C1
\* The Listener leaves the poll loop only through the shutdown check, with
\* the flag read as true, and goes to the cleanup.
C1_LoopExit ==
    (lpc \in LoopPlaces /\ lpc' \notin LoopPlaces)
        => (lpc = "check_shutdown" /\ shutdown_signal /\ lpc' = "cleanup")

\* C1: once shutdown_signal is true while the Listener is in its poll loop,
\* the Listener always leaves the loop (by the shutdown check, into the
\* cleanup) and reaches Stopped; from the flag becoming true to the loop's
\* exit it enters the idle sleep at most once, and at no place of the loop
\* does it wait for anything: a next step of it is always possible.
C1_ShutdownStopsListener ==
    /\ (shutdown_signal /\ lpc \in LoopPlaces) ~> (lpc = "stopped")
    /\ [][C1_LoopExit]_vars
    /\ [](hist.sleeps <= 1)
    /\ []((lpc \in LoopPlaces /\ ProcessAlive) => ENABLED ListenerNext)

\* The flag was set while the Listener slept in the loop, or just before it
\* did; the Listener slept that once and stopped.
C1_StoppedAfterOneSleep ==
    shutdown_signal /\ lpc = "stopped" /\ hist.sleeps = 1

\* ------------------------------------------------------------------------ C2
\* The Coordinator past the store: the flag is true; and past the join: the
\* Listener thread has ended and the join error is the thread's panic.
C2_Handshake ==
    /\ cpc \in {"join", "done"} => shutdown_signal
    /\ cpc = "done" =>
          /\ lpc \in {"stopped", "panicked"}
          /\ hist.join = IF lpc = "panicked" THEN "error" ELSE "ok"

\* The order of the steps: the polling loop is left only for the store, the
\* store (which sets the flag) only for the join, the join only for the
\* return of Ok(()).
C2_Order ==
    /\ (cpc \in {"recv", "check"} /\ cpc' \notin {"recv", "check"})
          => cpc' = "store"
    /\ (cpc = "store" /\ cpc' # "store") => (cpc' = "join" /\ shutdown_signal')
    /\ (cpc = "join" /\ cpc' # "join") => cpc' = "done"

\* C2: whenever the Coordinator's polling loop exits, the Coordinator stores
\* true into shutdown_signal and only afterwards joins the Listener thread;
\* a join error (the Listener panicked) is only recorded, and run_tray_app
\* still returns Ok.
C2_StoreThenJoin == [](C2_Handshake) /\ [][C2_Order]_vars

\* run_tray_app returned Ok after a join of a Listener that panicked.
C2_ReturnedAfterJoinError ==
    cpc = "done" /\ lpc = "panicked" /\ hist.join = "error" /\ shutdown_signal

\* ------------------------------------------------------------------------ C3
\* C3: on every path on which the Coordinator finishes after having spawned
\* the Listener thread, the tray-icon and menu-item failure paths included,
\* shutdown_signal has been set and the Listener thread has ended (been
\* joined) before the process ends.
C3_NeverForciblyTerminated ==
    (cpc \in {"done", "exited"} /\ lpc # "not_spawned")
        => (shutdown_signal /\ lpc \in {"stopped", "panicked"})

\* ------------------------------------------------------------------------ C4
\* The Listener is about to dequeue a pressed event whose id the Binding Table
\* lacks; its step from there is the handling of that event.
C4_UnknownPress ==
    /\ lpc = "poll_event"
    /\ receiver # <<>>
    /\ Head(receiver).state = "Pressed"
    /\ Head(receiver).id \notin DOMAIN hotkey_device_map

\* C4: a pressed event whose id is absent from the Binding Table only
\* produces the warning: no pipeline runs (no Matcher call, no commit of
\* either kind), nothing is sent to the Coordinator, the Binding Table and
\* the device snapshots are unchanged, and the Listener goes on with the
\* loop.
C4_UnknownIdOnlyWarns ==
    [][(C4_UnknownPress /\ lpc' # lpc) =>
          /\ last' = Some(Handled(Head(receiver), TRUE, TRUE, None, None))
          /\ hotkey_device_map' = hotkey_device_map
          /\ available_output_devices' = available_output_devices
          /\ available_input_devices' = available_input_devices
          /\ channel' = channel
          /\ lpc' = "peek"]_vars

\* The Listener, with a binding in its table, warned of an unknown id and is
\* in the loop.
C4_WarnedOfUnknownId ==
    /\ last # None
    /\ last[1].warned
    /\ last[1].id = UnknownHotkeyId
    /\ hotkey_device_map # <<>>
    /\ lpc = "peek"

\* ----------------------------------------------------------------- C5 .. C8
\* Whether a device of devs has the name, and the first index of one.
HasName(devs, name) == \E i \in 1..Len(devs) : devs[i].name = name

FirstNamed(devs, name) ==
    IF HasName(devs, name)
    THEN CHOOSE i \in 1..Len(devs) :
            /\ devs[i].name = name
            /\ \A j \in 1..(i - 1) : devs[j].name # name
    ELSE 0

\* Exact matching is configured and the press handled last was of a binding
\* with an output name and an input name that the snapshots both hold.
C5_BothPresent ==
    /\ PressHandled
    /\ ~config[1].fuzzy_match
    /\ PressedMapping.input_device_name # None
    /\ HasName(available_output_devices, PressedMapping.device_name)
    /\ HasName(available_input_devices, PressedMapping.input_device_name[1])

\* The commits of the press handled last: one of kind Output with the id of
\* the output device of the name, one of kind Input with the id of the input
\* device of the name, and no other.
C5_TwoCommits ==
    LET out == last[1].out[1]
        inp == last[1].inp[1]
        o == FirstNamed(available_output_devices, PressedMapping.device_name)
        i == FirstNamed(available_input_devices,
                        PressedMapping.input_device_name[1])
    IN  /\ Len(out.commits) = 1
        /\ out.commits[1].kind = "Output"
        /\ out.commits[1].id = available_output_devices[o].id
        /\ Len(inp.commits) = 1
        /\ inp.commits[1].kind = "Input"
        /\ inp.commits[1].id = available_input_devices[i].id

\* C5 as the specification states it: the commit collaborator is invoked
\* exactly twice, once per kind with the id of the device of that name, and
\* each pipeline returns the resolved device's name.
C5_TwoCommitsAndNames ==
    C5_BothPresent =>
        /\ last[1].out # None /\ last[1].inp # None
        /\ C5_TwoCommits
        /\ last[1].out[1].result = Ok(PressedMapping.device_name)
        /\ last[1].inp[1].result = Ok(PressedMapping.input_device_name[1])

\* C5, amended: the commit collaborator is invoked exactly twice, once per
\* kind with the id of the device of that name; a pipeline whose commit
\* succeeds returns the resolved device's name, and a pipeline whose commit
\* fails returns the commit's error (the other pipeline runs all the same).
C5_TwoCommitsNamesWhenCommitted ==
    C5_BothPresent =>
        /\ last[1].out # None /\ last[1].inp # None
        /\ C5_TwoCommits
        /\ LET out == last[1].out[1]
               inp == last[1].inp[1]
           IN  /\ out.result = IF out.commits[1].ok
                               THEN Ok(PressedMapping.device_name)
                               ELSE set_default_output_device(out.commits[1].id, "failed")
               /\ inp.result = IF inp.commits[1].ok
                               THEN Ok(PressedMapping.input_device_name[1])
                               ELSE set_default_input_device(inp.commits[1].id, "failed")

\* Both devices were present, both commits succeeded.
C5_BothSwitched ==
    /\ C5_BothPresent
    /\ last[1].out[1].result = Ok(PressedMapping.device_name)
    /\ last[1].inp[1].result = Ok(PressedMapping.input_device_name[1])

\* The validation ran with both enumerations answered, under exact matching.
C6_Validated ==
    /\ validation # None
    /\ ~config[1].fuzzy_match
    /\ ~validation[1].seen[1].fails
    /\ ~validation[1].seen[2].fails

\* The names of the devices an answer of the OS lists, and whether a list
\* of names holds a name.
C6_Listed(os) == NamesOf(ListFrom(os.endpoints, 1))

C6_Among(names, name) == \E i \in 1..Len(names) : names[i] = name

\* What the validation reports of the configured name of one kind that no
\* device of the kind has: the entry in the missing report of the kind, and
\* the notification with that entry and the names of the available devices.
C6_Flagged(name, keys, listed, missing, shown, shown_available) ==
    ~C6_Among(listed, name) =>
        /\ \E k \in 1..Len(missing) : missing[k] = MissingEntry(name, keys)
        /\ \E k \in 1..Len(shown) : shown[k] = MissingEntry(name, keys)
        /\ shown_available = listed

\* C6: with fuzzy matching disabled, when the configured name is not the name
\* of any device in the snapshot, the pipeline returns the no-match error
\* and commits nothing; and the startup validation lists the name in its
\* missing report, with the names of the available devices of that kind.
C6_NoMatchReported ==
    /\ (PressHandled /\ ~config[1].fuzzy_match) =>
          /\ ~HasName(available_output_devices, PressedMapping.device_name)
                => last[1].out
                     = Some(Pipeline(0, <<>>, Err(<<"No exact match found">>)))
          /\ (/\ PressedMapping.input_device_name # None
              /\ ~HasName(available_input_devices,
                          PressedMapping.input_device_name[1]))
                => /\ last[1].inp # None
                   /\ last[1].inp[1].resolved = 0
                   /\ last[1].inp[1].commits = <<>>
                   /\ ~last[1].inp[1].result.ok
    /\ C6_Validated =>
          LET v == validation[1]
              n == IF v.notification = None
                   THEN [missing_output |-> <<>>, missing_input |-> <<>>,
                         available_output |-> <<>>, available_input |-> <<>>]
                   ELSE v.notification[1]
          IN  \A k \in 1..Len(config[1].hotkeys) :
                LET m == config[1].hotkeys[k] IN
                /\ C6_Flagged(m.device_name, m.keys, C6_Listed(v.seen[1]),
                              v.report.missing_output, n.missing_output,
                              n.available_output)
                /\ m.input_device_name # None =>
                     C6_Flagged(m.input_device_name[1], m.keys,
                                C6_Listed(v.seen[2]), v.report.missing_input,
                                n.missing_input, n.available_input)

\* The name is not among the devices, which are some: the validation has
\* reported it with their names, and the press of its hotkey found no match.
C6_MissingAndNoMatch ==
    /\ PressHandled
    /\ C6_Validated
    /\ last[1].out[1].resolved = 0
    /\ last[1].out[1].commits = <<>>
    /\ validation[1].report.missing_output # <<>>
    /\ validation[1].notification # None
    /\ validation[1].notification[1].available_output # <<>>

\* C7: in exact mode the pipeline resolves the first device, in snapshot
\* order, whose name equals the target byte for byte, and resolves none if
\* and only if no device has exactly that name.
C7_ExactFirstEqual ==
    (PressHandled /\ ~config[1].fuzzy_match) =>
        /\ last[1].out[1].resolved
             = FirstNamed(available_output_devices, PressedMapping.device_name)
        /\ (last[1].out[1].resolved = 0)
             <=> ~HasName(available_output_devices, PressedMapping.device_name)
        /\ PressedMapping.input_device_name # None =>
             /\ last[1].inp[1].resolved
                  = FirstNamed(available_input_devices,
                               PressedMapping.input_device_name[1])
             /\ (last[1].inp[1].resolved = 0)
                  <=> ~HasName(available_input_devices,
                               PressedMapping.input_device_name[1])

\* Two devices have the target's name: the first was resolved.
C7_FirstOfTwoResolved ==
    /\ PressHandled
    /\ ~config[1].fuzzy_match
    /\ Len(available_output_devices) >= 2
    /\ available_output_devices[1].name = PressedMapping.device_name
    /\ available_output_devices[2].name = PressedMapping.device_name
    /\ last[1].out[1].resolved = 1

\* ------------------------------------------------------------------------ C8
\* The fuzzy mode is configured with the Skim algorithm, and the press
\* handled last was of a registered id.
C8_SkimPress ==
    /\ PressHandled
    /\ config[1].fuzzy_match
    /\ config_file.algorithm = "skim"

\* r is the choice among devs that C8 describes: a device that scores, of
\* the maximum score, the earliest of those with that score; 0 if and only
\* if no device scores.
C8_BestFirst(devs, target, r) ==
    IF r = 0
    THEN \A i \in 1..Len(devs) : FuzzyMatch(devs[i].name, target) = None
    ELSE /\ r \in 1..Len(devs)
         /\ FuzzyMatch(devs[r].name, target) # None
         /\ \A i \in 1..Len(devs) :
              LET score == FuzzyMatch(devs[i].name, target) IN
              score # None =>
                 /\ score[1] <= FuzzyMatch(devs[r].name, target)[1]
                 /\ score[1] = FuzzyMatch(devs[r].name, target)[1] => r <= i

\* C8: in fuzzy/Skim mode the device a pipeline resolved is the one any
\* other call with the same list and target resolves; it has the maximum
\* score among the devices that score, the earliest in snapshot order of
\* those with that score; and none is resolved if and only if no device
\* scores.
C8_SkimMaxFirst ==
    C8_SkimPress =>
        /\ C8_BestFirst(available_output_devices, PressedMapping.device_name,
                        last[1].out[1].resolved)
        /\ find_and_set_output_device(PressedMapping.device_name,
               available_output_devices, config[1], "ok").resolved
             = last[1].out[1].resolved
        /\ PressedMapping.input_device_name # None =>
             /\ C8_BestFirst(available_input_devices,
                             PressedMapping.input_device_name[1],
                             last[1].inp[1].resolved)
             /\ find_and_set_input_device(PressedMapping.input_device_name[1],
                    available_input_devices, config[1], "ok").resolved
                  = last[1].inp[1].resolved

\* Two devices score the same, the maximum: the first was resolved.
C8_TieKeptFirst ==
    /\ C8_SkimPress
    /\ Len(available_output_devices) >= 2
    /\ FuzzyMatch(available_output_devices[1].name, PressedMapping.device_name) # None
    /\ FuzzyMatch(available_output_devices[1].name, PressedMapping.device_name)
         = FuzzyMatch(available_output_devices[2].name, PressedMapping.device_name)
    /\ last[1].out[1].resolved = 1

\* ------------------------------------------------------------------ C9, C10
\* The Levenshtein mode as the specification describes it. The edit distance
\* of the first i characters of a and the first j characters of b.
RECURSIVE Levenshtein(_, _, _, _)
Levenshtein(a, b, i, j) ==
    IF i = 0 THEN j
    ELSE IF j = 0 THEN i
    ELSE LET del == Levenshtein(a, b, i - 1, j) + 1
             ins == Levenshtein(a, b, i, j - 1) + 1
             sub == Levenshtein(a, b, i - 1, j - 1)
                        + (IF a[i] = b[j] THEN 0 ELSE 1)
             m == IF del < ins THEN del ELSE ins
         IN  IF sub < m THEN sub ELSE m

\* The normalized similarity of two names, lower-cased, as the fraction
\* <<numerator, denominator>>: 1 - distance / (the longer length).
Similarity(a, b) ==
    LET la == Lower(a)
        lb == Lower(b)
        longer == IF Len(la) > Len(lb) THEN Len(la) ELSE Len(lb)
    IN  IF longer = 0 THEN <<1, 1>>
        ELSE <<longer - Levenshtein(la, lb, Len(la), Len(lb)), longer>>

\* Fraction x is greater than fraction y; fraction x is at least percent/100.
Greater(x, y) == x[1] * y[2] > y[1] * x[2]

AtLeastPercent(x, percent) == 100 * x[1] >= percent * x[2]

\* The device the Levenshtein mode resolves: the first of the maximum
\* similarity when that similarity reaches the threshold, else none.
LevenshteinResolve(devs, target, percent) ==
    IF devs = <<>> THEN 0
    ELSE LET best == CHOOSE i \in 1..Len(devs) :
                        \A j \in 1..Len(devs) :
                           /\ ~Greater(Similarity(devs[j].name, target),
                                       Similarity(devs[i].name, target))
                           /\ j < i => Greater(Similarity(devs[i].name, target),
                                               Similarity(devs[j].name, target))
         IN  IF AtLeastPercent(Similarity(devs[best].name, target), percent)
             THEN best ELSE 0

\* The configuration file asks for the fuzzy mode with the Levenshtein
\* algorithm, and the press handled last was of a registered id.
LevenshteinPress ==
    /\ PressHandled
    /\ config_file.fuzzy_match
    /\ config_file.algorithm = "levenshtein"

\* C9: in fuzzy/Levenshtein mode the candidate of the best similarity is
\* resolved only if its normalized similarity is greater than or equal to
\* the configured threshold; below the threshold none is resolved even
\* though a best candidate existed.
C9_ThresholdDecides ==
    LevenshteinPress =>
        last[1].out[1].resolved
           = LevenshteinResolve(available_output_devices,
                                PressedMapping.device_name,
                                config_file.threshold)

\* Lists a and b hold the same devices but for the letter case of names.
SameButCase(a, b) ==
    /\ Len(a) = Len(b)
    /\ \A i \in 1..Len(a) :
          a[i].id = b[i].id /\ Lower(a[i].name) = Lower(b[i].name)

\* C10: in fuzzy/Levenshtein mode, changing only the letter case of the
\* target or of a candidate name never changes which device is resolved.
C10_CaseNeverMatters ==
    LevenshteinPress =>
        \A target \in Names, devs \in DeviceLists("render") :
           (/\ Lower(target) = Lower(PressedMapping.device_name)
            /\ SameButCase(devs, available_output_devices))
              => find_and_set_output_device(target, devs, config[1], "ok").resolved
                   = last[1].out[1].resolved

\* ----------------------------------------------------------------------- C11
\* Every hotkey registered with the OS has its entry in the Binding Table,
\* the binding the configuration gives it.
C11_TableHoldsRegistered ==
    \A id \in os_hotkeys :
       /\ id \in DOMAIN hotkey_device_map
       /\ hotkey_device_map[id] = config[1].hotkeys[id]

\* C11: if the registration of one of the configured bindings fails, the
\* others still become dispatchable: when any binding registered, the
\* registration step goes on to the snapshots with every registered binding
\* in the table, unchanged, and the Listener is in its loop with them.
C11_OthersStillDispatchable ==
    /\ [][(lpc = "register" /\ lpc' # lpc /\ os_hotkeys' # {})
            => (lpc' = "list_output" /\ C11_TableHoldsRegistered')]_vars
    /\ [](lpc \in LoopPlaces => C11_TableHoldsRegistered)

\* The first binding failed to register; a press of the second was
\* dispatched to its pipeline.
C11_SecondDispatchedWithoutFirst ==
    /\ lpc = "peek"
    /\ last # None
    /\ HotkeyId(1) \notin os_hotkeys
    /\ last[1].id = HotkeyId(2)
    /\ last[1].out # None

\* ----------------------------------------------------------------------- C12
\* The Listener takes an event from the receiver.
EventDequeued == lpc = "poll_event" /\ receiver # <<>> /\ lpc' # lpc

\* The event at the head of the receiver is handled as every event is: by
\* the table lookup and the pipelines of its binding, and the loop goes on.
HandledNormally ==
    /\ \E out_outcome \in CommitOutcomes, in_outcome \in CommitOutcomes :
         last' = Some(HandleEvent(Head(receiver), out_outcome, in_outcome))
    /\ lpc' = "peek"

\* C12: a failed switch attempt (no match or commit failure, output or
\* input) never stops the poll loop: the step that handles the event goes on
\* with the loop whatever the pipelines returned, events after failures are
\* handled as any event is, and the Listener goes from the loop to the
\* cleanup only by its shutdown check reading the flag as true.
C12_FailuresNeverStopLoop ==
    /\ [][EventDequeued => HandledNormally]_vars
    /\ [][(lpc \in LoopPlaces /\ lpc' \in {"cleanup", "com_uninit", "stopped"})
            => (lpc = "check_shutdown" /\ shutdown_signal)]_vars
    /\ []((hist.failed /\ lpc \in {"cleanup", "com_uninit", "stopped"})
            => shutdown_signal)

\* After a failed switch the Listener, still in its loop with the flag
\* false, has handled a press whose output switch succeeded.
C12_SwitchedAfterFailure ==
    /\ hist.failed
    /\ ~shutdown_signal
    /\ lpc = "peek"
    /\ last # None
    /\ last[1].out # None
    /\ last[1].out[1].result.ok
    /\ ~SwitchFailed(last[1])

\* ----------------------------------------------------------------------- C13
\* The step sends one error message to the Coordinator.
ErrorSent ==
    /\ Len(channel') = Len(channel) + 1
    /\ channel'[Len(channel')] # Quit
    /\ \A i \in 1..Len(channel) : channel'[i] = channel[i]

\* C13: each switch failure that occurs while a pressed event is handled (no
\* match or commit failure, output or input) is reported to the Coordinator
\* as an error message on the channel.
C13_SwitchFailureReported ==
    [][(EventDequeued /\ SwitchFailed(last'[1])) => ErrorSent]_vars

\* ----------------------------------------------------------------------- C14
\* The places of the Listener before its loop.
StartingPlaces == {"com_init", "manager", "register", "list_output", "list_input"}

\* C14: a failure during Starting (COM initialization, manager creation,
\* registration, output enumeration, input enumeration) makes the Listener
\* send exactly one error message and return without a poll-loop iteration:
\* the step that fails sends the one message and ends the thread, the steps
\* that succeed send none, and a thread that has returned does nothing more.
C14_StartFailureOneError ==
    /\ [][(lpc \in StartingPlaces /\ lpc' # lpc) =>
            \/ lpc' = "stopped" /\ ErrorSent
            \/ lpc' \in (StartingPlaces \cup {"poll_event"}) /\ channel' = channel
            \/ lpc' = "panicked" /\ channel' = channel]_vars
    /\ [][lpc = "stopped" => (lpc' = "stopped" /\ hist'.found = hist.found)]_vars
    /\ []((lpc = "stopped" /\ ~shutdown_signal) => (~hist.found /\ last = None))

\* The input enumeration, the last step of Starting, failed: the Listener
\* has returned and its one message waits in the channel.
C14_StoppedAtStart ==
    /\ lpc = "stopped"
    /\ ~shutdown_signal
    /\ channel = <<HotkeyError("Failed to list audio input devices")>>

\* ----------------------------------------------------------------------- C15
\* C15: no hotkey is registered before both snapshots have succeeded, so a
\* Listener that an enumeration failure ended at startup has registered no
\* hotkey in that session.
C15_NoHotkeyBeforeSnapshots ==
    /\ lpc \in {"list_output", "list_input"} => os_hotkeys = {}
    /\ (lpc = "stopped" /\ ~shutdown_signal /\ hist.stores = 0) => os_hotkeys = {}

\* ----------------------------------------------------------------------- C16
\* C16: the idle sleep is entered only in an iteration that found no work:
\* never in one whose step 1 dequeued a hotkey event or whose step 2
\* dispatched a native message.
C16_SleepOnlyWithoutWork ==
    [][(lpc = "idle" /\ lpc' = "sleeping")
          => (~hist.found /\ ~message_handled)]_vars

\* ----------------------------------------------------------------------- C17
\* The steps of the cleanup: the unregistration of every hotkey obtained at
\* startup is requested, and whether it succeeds (no hotkey is left
\* registered, nothing is sent) or fails (the error is sent), the release of
\* COM follows, and then the return.
C17_CleanupSteps ==
    /\ (lpc \in LoopPlaces /\ lpc' \notin (LoopPlaces \cup {"panicked"}))
          => lpc' = "cleanup"
    /\ (lpc = "cleanup" /\ lpc' # lpc) =>
          /\ lpc' = "com_uninit"
          /\ com_inits' = com_inits
          /\ \/ os_hotkeys' = {} /\ channel' = channel
             \/ os_hotkeys' # {} /\ os_hotkeys' \subseteq os_hotkeys /\ ErrorSent
    /\ (lpc = "com_uninit" /\ lpc' # lpc) =>
          /\ lpc' = "stopped"
          /\ com_inits' = 0
          /\ channel' = channel

\* C17: when the Listener leaves the poll loop it requests unregistration of
\* every hotkey obtained at startup and then releases the thread's COM; a
\* failure of the unregistration is reported as an error message and does
\* not prevent the release of COM or the return of the thread: each step of
\* the cleanup can always be taken, and leads to the next.
C17_CleanupAlwaysCompletes ==
    /\ [][C17_CleanupSteps]_vars
    /\ [](lpc \in LoopPlaces =>
             (os_hotkeys = DOMAIN hotkey_device_map /\ com_inits = 1))
    /\ [](lpc \in {"cleanup", "com_uninit"} =>
             (ENABLED ListenerUnregister \/ ENABLED ListenerComUninit))
    /\ []((lpc = "stopped" /\ hist.stores = 1 /\ hist.found) => com_inits = 0)

\* The unregistration failed and was reported; the thread released COM and
\* returned.
C17_StoppedAfterUnregisterFailure ==
    /\ lpc = "stopped"
    /\ shutdown_signal
    /\ com_inits = 0
    /\ os_hotkeys # {}
    /\ \E i \in 1..Len(channel) :
          channel[i] = HotkeyError("Failed to unregister hotkeys")

\* ----------------------------------------------------------------------- C18
\* The results the output pipeline can give for the press handled last, and
\* those the input pipeline can give, each by itself.
C18_OutputResults ==
    {find_and_set_output_device(PressedMapping.device_name,
         available_output_devices, config[1], o) : o \in CommitOutcomes}

C18_InputResults ==
    {find_and_set_input_device(PressedMapping.input_device_name[1],
         available_input_devices, config[1], o) : o \in CommitOutcomes}

\* C18: for a press of a binding with an input device name the input
\* pipeline runs after the output pipeline whether that one succeeded or
\* failed, and its failure leaves the output result as it was: each result
\* is what its pipeline gives by itself. Without an input device name no
\* input pipeline runs.
C18_InputRunsRegardless ==
    PressHandled =>
        /\ last[1].out # None
        /\ last[1].out[1] \in C18_OutputResults
        /\ IF PressedMapping.input_device_name # None
           THEN last[1].inp # None /\ last[1].inp[1] \in C18_InputResults
           ELSE last[1].inp = None

\* The output pipeline failed; the input pipeline ran and switched.
C18_InputSwitchedAfterOutputFailed ==
    /\ PressHandled
    /\ ~last[1].out[1].result.ok
    /\ last[1].inp # None
    /\ last[1].inp[1].result.ok
    /\ Len(last[1].inp[1].commits) = 1

\* ----------------------------------------------------------------------- C19
\* The Coordinator's polling step finds an error message of the Listener.
C19_ErrorReceived ==
    cpc = "recv" /\ cpc' # cpc /\ channel # <<>> /\ Head(channel) # Quit

\* The polling loop is left: by the break on Quit, or by the break on the
\* channel's disconnection.
C19_LoopLeft == cpc \in {"recv", "check"} /\ cpc' \notin {"recv", "check"}

\* C19: the Coordinator's polling loop never exits because of an error
\* message from the Listener: it takes the message (logs it), leaves the flag
\* alone and keeps polling, whether the Listener still runs or has stopped;
\* it leaves the loop only on a Quit message or on the channel's
\* disconnection.
C19_ErrorsNeverEndPolling ==
    /\ [][C19_ErrorReceived =>
            /\ cpc' = "check"
            /\ channel' = Tail(channel)
            /\ shutdown_signal' = shutdown_signal]_vars
    /\ [][C19_LoopLeft =>
            /\ cpc = "recv"
            /\ cpc' = "store"
            /\ \/ channel # <<>> /\ Head(channel) = Quit
               \/ channel = <<>> /\ SendersAlive = {}]_vars
    /\ [](cpc \in {"recv", "check"} => ~shutdown_signal)

\* The Listener failed at startup and has stopped; the Coordinator has taken
\* its error message and polls again.
C19_PollingAfterFatalError ==
    /\ cpc = "recv"
    /\ lpc = "stopped"
    /\ ~shutdown_signal
    /\ channel = <<>>

\* ----------------------------------------------------------------------- C20
\* C20: shutdown_signal is monotonic and has one writer: it starts false, it
\* changes only from false to true and only by the Coordinator's store of the
\* shutdown sequence, no run stores into it twice, a run that shuts down
\* has stored into it once, and no step of the Listener changes it.
C20_FlagMonotonicSingleWriter ==
    /\ [](shutdown_signal <=> hist.stores = 1)
    /\ [](hist.stores <= 1)
    /\ [](cpc = "done" => hist.stores = 1)
    /\ [](cpc \in {"load_config", "validate", "spawn", "tray", "menu"}
             => ~shutdown_signal)
    /\ [][shutdown_signal' # shutdown_signal =>
            /\ ~shutdown_signal /\ shutdown_signal'
            /\ cpc = "store" /\ cpc' = "join"
            /\ lpc' = lpc]_vars
    /\ [][lpc' # lpc => shutdown_signal' = shutdown_signal]_vars

\* The flag was stored once, the Listener read it and has stopped, and the
\* flag is still true.
C20_ReadAfterTheOneStore ==
    /\ shutdown_signal
    /\ hist.stores = 1
    /\ lpc = "stopped"
    /\ cpc = "done"

\* ----------------------------------------------------------------------- C21
\* The configuration file cannot be read or parsed.
C21_LoadFails == ~load_config(config_file).ok

\* No Listener thread exists and the thread has done nothing: no COM
\* initialization, no hotkey registered, nothing sent.
C21_NoListener ==
    /\ lpc = "not_spawned"
    /\ com_inits = 0
    /\ os_hotkeys = {}
    /\ hotkey_device_map = <<>>
    /\ channel = <<>>

\* C21: if loading the configuration fails, run_tray_app returns the error
\* before the validation and before the spawn: the step from load_config goes
\* to the return of the error and from there to the exit of the process, and
\* in no state of such a run does a Listener thread exist or is a hotkey
\* registered.
C21_LoadFailureBeforeSpawn ==
    /\ [](C21_LoadFails => (C21_NoListener /\ config = None /\ validation = None))
    /\ [](C21_LoadFails => cpc \in {"load_config", "failed", "exited"})
    /\ [][(cpc = "load_config" /\ cpc' # cpc)
            => (IF C21_LoadFails THEN cpc' = "failed" /\ config' = None
                ELSE cpc' = "validate" /\ config' # None)]_vars
    /\ []((lpc # "not_spawned") => (config # None /\ ~C21_LoadFails))

\* The load failed and the process has ended without a Listener thread.
C21_ExitedWithoutListener ==
    /\ C21_LoadFails
    /\ cpc = "exited"
    /\ config = None
    /\ lpc = "not_spawned"
    /\ os_hotkeys = {}

\* ----------------------------------------------------------------------- C22
\* What the Listener thread owns: its COM initialization, the hotkeys the
\* manager registered, the Binding Table, the snapshots, and what its loop
\* holds of the event and of the native message it took.
C22_ListenerOwned ==
    <<com_inits, os_hotkeys, hotkey_device_map, available_output_devices,
      available_input_devices, message_handled, last>>

\* A step of the Coordinator (the main thread), and a step of the Listener
\* thread.
C22_CoordinatorStep == cpc' # cpc

C22_ListenerStep == lpc # "not_spawned" /\ lpc' # lpc

\* C22: the creation of the hotkey manager, the registration, the polling of
\* hotkey events, the pumping of native messages and the unregistration are
\* steps of the Listener thread and never of the Coordinator: what the
\* Listener owns changes only by a step of the Listener, an event or a native
\* message is taken from its queue only by a step of the Listener, and a step
\* of the Coordinator touches none of it. Of the state the Coordinator
\* writes, the Listener writes only the channel, and it leaves the flag as it
\* found it.
C22_HotkeysThreadAffine ==
    /\ [][C22_ListenerOwned' # C22_ListenerOwned
            => (C22_ListenerStep /\ ~C22_CoordinatorStep)]_vars
    /\ [][(Len(receiver') < Len(receiver) \/ native' < native)
            => (C22_ListenerStep /\ ~C22_CoordinatorStep)]_vars
    /\ [][C22_CoordinatorStep
            => (/\ C22_ListenerOwned' = C22_ListenerOwned
                /\ receiver' = receiver
                /\ native' = native
                /\ lpc' # lpc => (lpc = "not_spawned" /\ cpc = "spawn"))]_vars
    /\ [][C22_ListenerStep
            => (/\ cpc' = cpc
                /\ config' = config
                /\ validation' = validation
                /\ shutdown_signal' = shutdown_signal)]_vars
    /\ [](lpc = "not_spawned" =>
             (C22_ListenerOwned = <<0, {}, <<>>, <<>>, <<>>, FALSE, None>>))

\* The Listener has registered hotkeys and handled a press of one while the
\* Coordinator polls the channel.
C22_BothThreadsAtWork ==
    /\ cpc = "check"
    /\ lpc = "peek"
    /\ os_hotkeys # {}
    /\ last # None
    /\ last[1].out # None
    /\ ~shutdown_signal

\* ----------------------------------------------------------------------- C23
\* What C23 says of one pipeline call p of the kind, against the snapshot
\* devs of that kind, with commit the collaborator of the kind: no commit
\* without a resolved device; with one, the one commit, of the kind, with
\* the id of the device resolved in devs; the result is the name of that
\* device when the commit succeeded and the commit's error when it failed.
C23_OneCall(p, kind, devs, commit(_, _)) ==
    /\ Len(p.commits) <= 1
    /\ p.resolved \in 0..Len(devs)
    /\ IF p.resolved = 0
       THEN p.commits = <<>> /\ ~p.result.ok
       ELSE LET device == devs[p.resolved] IN
            /\ Len(p.commits) = 1
            /\ p.commits[1].kind = kind
            /\ p.commits[1].id = device.id
            /\ p.result = IF p.commits[1].ok THEN Ok(device.name)
                          ELSE commit(device.id, "failed")
            /\ p.result.ok <=> p.commits[1].ok

\* C23: a switch pipeline invokes the commit collaborator at most once per
\* call, only after a device was resolved, with the id of the resolved device
\* and the kind of the pipeline (the output pipeline resolves against the
\* output snapshot only, the input pipeline against the input snapshot
\* only); on commit success it returns the resolved device's display name,
\* and a commit failure is returned as the pipeline's error.
C23_CommitOnceAfterResolve ==
    PressHandled =>
        /\ last[1].out # None
        /\ C23_OneCall(last[1].out[1], "Output", available_output_devices,
                       set_default_output_device)
        /\ last[1].inp # None =>
              C23_OneCall(last[1].inp[1], "Input", available_input_devices,
                          set_default_input_device)

\* In fuzzy mode the output pipeline committed a device and returned its
\* name, which is not the target name; the input pipeline's commit failed.
C23_ReturnedResolvedName ==
    /\ PressHandled
    /\ config[1].fuzzy_match
    /\ last[1].out[1].result.ok
    /\ last[1].out[1].result.val # PressedMapping.device_name
    /\ last[1].out[1].result.val
         = available_output_devices[last[1].out[1].resolved].name
    /\ last[1].inp # None
    /\ Len(last[1].inp[1].commits) = 1
    /\ ~last[1].inp[1].result.ok

\* ----------------------------------------------------------------------- C24
\* The place that follows each place of the loop.
C24_Order ==
    /\ lpc = "poll_event" => lpc' = "peek"
    /\ lpc = "peek" => lpc' = "check_shutdown"
    /\ lpc = "check_shutdown" => lpc' = IF shutdown_signal THEN "cleanup" ELSE "idle"
    /\ lpc = "idle" => lpc' \in {"sleeping", "poll_event"}
    /\ lpc = "sleeping" => lpc' = "poll_event"

\* Step 1 takes the event at the head of the queue, if any, and no other,
\* runs the switches of its binding to their results, and leaves the native
\* messages alone.
C24_EventStep ==
    /\ native' = native
    /\ IF receiver = <<>>
       THEN receiver' = receiver /\ last' = last
       ELSE /\ receiver' = Tail(receiver)
            /\ \E out_outcome \in CommitOutcomes, in_outcome \in CommitOutcomes :
                 last' = Some(HandleEvent(Head(receiver), out_outcome, in_outcome))

\* Step 2 dispatches one native message, if any, and leaves the events alone.
C24_NativeStep ==
    /\ receiver' = receiver
    /\ native' = IF native > 0 THEN native - 1 ELSE 0
    /\ message_handled' = (native > 0)

\* C24: within one iteration of the poll loop the steps run in the fixed
\* order hotkey event, native message, shutdown check, sleep: step 1
\* dequeues at most one hotkey event and completes its output and input
\* switches before the native message drain of the iteration, step 2
\* dispatches at most one native message, and the other steps take neither.
C24_FixedOrderOnePerStep ==
    /\ [][(lpc \in LoopPlaces /\ lpc' # lpc) => C24_Order]_vars
    /\ [][(lpc = "poll_event" /\ lpc' # lpc) => C24_EventStep]_vars
    /\ [][(lpc = "peek" /\ lpc' # lpc) => C24_NativeStep]_vars
    /\ [][(lpc \in {"check_shutdown", "idle", "sleeping"} /\ lpc' # lpc)
            => (receiver' = receiver /\ native' = native)]_vars
    /\ [](lpc = "peek" => (hist.found <=> last # None))

\* The iteration took one event and dispatched one native message while
\* another event and another native message wait.
C24_OneOfEachTaken ==
    /\ lpc = "check_shutdown"
    /\ hist.found
    /\ message_handled
    /\ receiver # <<>>
    /\ native > 0

\* ----------------------------------------------------------------------- C25
\* The Listener is about to dequeue an event that is not in the pressed
\* state.
C25_NotPressedNext ==
    /\ lpc = "poll_event"
    /\ receiver # <<>>
    /\ Head(receiver).state # "Pressed"

\* C25: only events in the pressed state trigger a switch: a dequeued event
\* in another state is consumed without a lookup in the Binding Table,
\* without the warning and without a pipeline call (so without a commit),
\* also when its id is a registered one; nothing is sent and the loop goes
\* on. Whatever was looked up, warned of or switched was a pressed event.
C25_OnlyPressedSwitches ==
    /\ [][(C25_NotPressedNext /\ lpc' # lpc) =>
            /\ last' = Some(Handled(Head(receiver), FALSE, FALSE, None, None))
            /\ receiver' = Tail(receiver)
            /\ channel' = channel
            /\ hist'.failed = hist.failed
            /\ lpc' = "peek"]_vars
    /\ []((/\ last # None
           /\ (last[1].looked_up \/ last[1].warned
                 \/ last[1].out # None \/ last[1].inp # None))
             => last[1].state = "Pressed")

\* A release of a registered hotkey was consumed: no lookup, no warning, no
\* pipeline.
C25_ReleaseOfRegisteredConsumed ==
    /\ lpc = "peek"
    /\ last # None
    /\ last[1].state = "Released"
    /\ last[1].id \in DOMAIN hotkey_device_map
    /\ last[1].id \in os_hotkeys
    /\ ~last[1].looked_up
    /\ ~last[1].warned
    /\ last[1].out = None
    /\ last[1].inp = None

\* ----------------------------------------------------------------------- C26
\* The step sends the one message m: it is appended to the channel.
C26_Sends(m) == channel' = Append(channel, m)

\* The error messages the Listener thread sends.
C26_ListenerErrors ==
    {HotkeyError("Hotkey thread failed to initialize COM"),
     HotkeyError("Failed to create GlobalHotKeyManager"),
     HotkeyError("Failed to register hotkeys"),
     HotkeyError("Failed to list audio output devices"),
     HotkeyError("Failed to list audio input devices"),
     HotkeyError("Failed to unregister hotkeys")}

\* C26: the messages on the channel respect the stated direction: a step of
\* the Listener thread sends nothing or one error message and never a Quit;
\* a Quit is sent only by the Quit callback of the tray menu (no step of the
\* Listener or of the Coordinator's own code), while the callback's sender is
\* alive; every message goes into the one channel, and only the Coordinator's
\* polling step takes messages out of it, the oldest first.
C26_ChannelDirection ==
    /\ [][lpc' # lpc =>
            \/ channel' = channel
            \/ \E m \in C26_ListenerErrors : C26_Sends(m)]_vars
    /\ [][(Len(channel') > Len(channel) /\ channel'[Len(channel')] = Quit) =>
            /\ C26_Sends(Quit)
            /\ lpc' = lpc
            /\ cpc' = cpc
            /\ "quit_sender" \in SendersAlive]_vars
    /\ [][(Len(channel') > Len(channel) /\ channel'[Len(channel')] # Quit) =>
            /\ lpc' # lpc
            /\ cpc' = cpc]_vars
    /\ [][(channel' # channel /\ Len(channel') <= Len(channel)) =>
            /\ cpc = "recv"
            /\ lpc' = lpc
            /\ channel' = Tail(channel)]_vars
    /\ [](\A i \in 1..Len(channel) :
             channel[i] = Quit \/ channel[i] \in C26_ListenerErrors)

\* An error message of the Listener and the Quit of the tray callback wait
\* in the one channel for the Coordinator.
C26_ErrorThenQuitQueued ==
    /\ Len(channel) = 2
    /\ channel[1] \in C26_ListenerErrors
    /\ channel[2] = Quit
    /\ cpc \in {"recv", "check"}

\* ----------------------------------------------------------------------- C27
\* The Listener is past its startup: in the loop, in the cleanup, or ended.
C27_PastStartup == lpc \in (LoopPlaces \cup {"cleanup", "com_uninit"})

\* The pipelines of the press handled last ran against the two snapshots:
\* each result is one the pipeline gives with the snapshot of its kind, and
\* the device committed is the one at the resolved place of that snapshot.
C27_ResolvedAgainstSnapshots ==
    PressHandled =>
        /\ \E o \in CommitOutcomes :
              last[1].out[1]
                = find_and_set_output_device(PressedMapping.device_name,
                      available_output_devices, config[1], o)
        /\ last[1].out[1].resolved # 0 =>
              last[1].out[1].commits[1].id
                = available_output_devices[last[1].out[1].resolved].id
        /\ last[1].inp # None =>
              /\ \E o \in CommitOutcomes :
                    last[1].inp[1]
                      = find_and_set_input_device(
                            PressedMapping.input_device_name[1],
                            available_input_devices, config[1], o)
              /\ last[1].inp[1].resolved # 0 =>
                    last[1].inp[1].commits[1].id
                      = available_input_devices[last[1].inp[1].resolved].id

\* C27: the output and the input snapshot are captured once, each by its
\* enumeration step of the startup, before the poll loop; no step changes or
\* re-enumerates them while the Listener runs, the startup is never entered
\* again, and every switch attempt, after any number of events, resolves
\* against these two lists.
C27_SnapshotsFixed ==
    /\ [][available_output_devices' # available_output_devices
            => (lpc = "list_output" /\ lpc' = "list_input")]_vars
    /\ [][available_input_devices' # available_input_devices
            => (lpc = "list_input" /\ lpc' = "poll_event")]_vars
    /\ [][C27_PastStartup =>
            /\ available_output_devices' = available_output_devices
            /\ available_input_devices' = available_input_devices
            /\ lpc' \notin StartingPlaces]_vars
    /\ [](C27_ResolvedAgainstSnapshots)

\* After an event whose switch failed, a later press resolved devices of
\* both snapshots, which still hold the devices enumerated at startup.
C27_LaterPressSameLists ==
    /\ lpc = "peek"
    /\ hist.failed
    /\ PressHandled
    /\ last[1].out[1].resolved # 0
    /\ last[1].inp # None
    /\ last[1].inp[1].resolved # 0
    /\ \E os \in RenderAnswers :
          available_output_devices = ListFrom(os.endpoints, 1)
    /\ Len(available_output_devices) = 2

\* ----------------------------------------------------------------------- C28
\* The name of an endpoint was read.
C28_NameResolved(name) == name # UnknownName /\ name # InvalidName

\* The endpoints of a collection that C28 keeps, in the collection's order.
C28_Kept(endpoints) ==
    SelectSeq(endpoints, LAMBDA e : e.id # <<>> /\ C28_NameResolved(e.name))

\* The snapshot devs is what C28 says of the answer os: every device of it
\* has a non-empty id and a resolved name, and it holds the kept endpoints
\* of the answer, all of them, in enumeration order.
C28_SnapshotOf(devs, os) ==
    /\ ~os.fails
    /\ \A i \in 1..Len(devs) :
          devs[i].id # <<>> /\ C28_NameResolved(devs[i].name)
    /\ devs = C28_Kept(os.endpoints)

\* C28: every device in a snapshot returned by the enumeration has a
\* non-empty id and a resolved display name: the endpoints with an empty id
\* or with a name that could not be read are dropped, and all the others are
\* kept in enumeration order.
C28_OnlyUsableDevicesKept ==
    /\ lpc \in {"list_input", "poll_event"} =>
          C28_SnapshotOf(available_output_devices, hist.listed[1])
    /\ lpc = "poll_event" =>
          C28_SnapshotOf(available_input_devices, hist.listed[2])

\* The OS handed two render endpoints, the first without an id, and two
\* capture endpoints, the first with a name that could not be read: each
\* snapshot holds the second endpoint alone.
C28_FirstOfTwoDropped ==
    /\ lpc = "poll_event"
    /\ Len(hist.listed[1].endpoints) = 2
    /\ hist.listed[1].endpoints[1].id = <<>>
    /\ C28_NameResolved(hist.listed[1].endpoints[1].name)
    /\ available_output_devices
         = <<AudioDevice("render", 2, hist.listed[1].endpoints[2].name)>>
    /\ Len(hist.listed[2].endpoints) = 2
    /\ hist.listed[2].endpoints[1].id # <<>>
    /\ hist.listed[2].endpoints[1].name = InvalidName
    /\ available_input_devices
         = <<AudioDevice("capture", 2, hist.listed[2].endpoints[2].name)>>

\* ----------------------------------------------------------------------- C29
\* Whether a configured name exists among the devices an answer of the OS
\* lists: a device of that name under exact matching, a device the matcher
\* scores under fuzzy matching.
C29_Exists(os, name) ==
    LET devs == ListFrom(os.endpoints, 1) IN
    IF config[1].fuzzy_match
    THEN \E i \in 1..Len(devs) : FuzzyMatch(devs[i].name, name) # None
    ELSE \E i \in 1..Len(devs) : devs[i].name = name

\* The entries of the bindings, in configuration order, whose output name
\* does not exist, and of those whose input name is set and does not exist.
C29_MissingOutput(os) ==
    LET sel == SelectSeq(config[1].hotkeys,
                         LAMBDA m : ~C29_Exists(os, m.device_name))
    IN  [i \in 1..Len(sel) |-> MissingEntry(sel[i].device_name, sel[i].keys)]

C29_MissingInput(os) ==
    LET sel == SelectSeq(config[1].hotkeys,
                         LAMBDA m : /\ m.input_device_name # None
                                    /\ ~C29_Exists(os, m.input_device_name[1]))
    IN  [i \in 1..Len(sel) |-> MissingEntry(sel[i].input_device_name[1], sel[i].keys)]

\* What the validation reported: with both enumerations answered, the
\* output name of every binding and the input name of every binding that has
\* one were checked for existence; a notification was shown if and only if a
\* name is missing.
C29_Report ==
    LET v == validation[1] IN
    /\ IF v.seen[1].fails \/ v.seen[2].fails
       THEN v.report.missing_output = <<>> /\ v.report.missing_input = <<>>
       ELSE /\ v.report.missing_output = C29_MissingOutput(v.seen[1])
            /\ v.report.missing_input = C29_MissingInput(v.seen[2])
    /\ (v.notification # None)
         <=> (v.report.missing_output # <<>> \/ v.report.missing_input # <<>>)

\* The validation step changes nothing but its report: no pipeline runs (no
\* commit), nothing is registered or sent, and no Listener thread exists yet.
C29_ValidationStepFrame ==
    /\ cpc' = "spawn"
    /\ validation = None /\ validation' # None
    /\ lpc = "not_spawned" /\ lpc' = lpc
    /\ last = None /\ last' = last
    /\ <<config, channel, shutdown_signal, com_inits, os_hotkeys,
         hotkey_device_map, available_output_devices,
         available_input_devices, receiver, native, hist>>'
         = <<config, channel, shutdown_signal, com_inits, os_hotkeys,
             hotkey_device_map, available_output_devices,
             available_input_devices, receiver, native, hist>>

\* C29: the startup validation is a pure existence check performed once,
\* before the Listener is spawned: it checks the output name of every
\* configured binding and the input name of every binding that has one
\* against the device lists, it never invokes the commit collaborator, and a
\* notification is shown only when at least one configured name is missing.
C29_ValidationPureOnce ==
    /\ [][(cpc = "validate" /\ cpc' # cpc) => C29_ValidationStepFrame]_vars
    /\ [][validation' # validation => cpc = "validate"]_vars
    /\ [][cpc' = "validate" => cpc \in {"load_config", "validate"}]_vars
    /\ [](validation # None => C29_Report)
    /\ [](lpc # "not_spawned" => validation # None)

\* The validation found the output name and the input name of the binding
\* among the devices listed: it reported nothing missing and showed no
\* notification, and the Coordinator goes on to the spawn.
C29_AllFoundNoNotification ==
    /\ cpc = "spawn"
    /\ lpc = "not_spawned"
    /\ validation # None
    /\ ~validation[1].seen[1].fails
    /\ ~validation[1].seen[2].fails
    /\ config[1].hotkeys[1].input_device_name # None
    /\ validation[1].report.available_output # <<>>
    /\ validation[1].report.missing_output = <<>>
    /\ validation[1].report.missing_input = <<>>
    /\ validation[1].notification = None

\* ----------------------------------------------------------------------- C30
\* A Quit message is in the channel.
C30_QuitSent == \E i \in 1..Len(channel) : channel[i] = Quit

\* run_tray_app has returned Ok after the shutdown sequence: the flag is
\* set, by the one store, and the Listener thread was joined after it ended.
C30_Returned ==
    /\ cpc = "done"
    /\ shutdown_signal
    /\ hist.stores = 1
    /\ lpc = "stopped"
    /\ hist.join = "ok"

\* C30: after a Quit message has been sent on the channel, the Coordinator
\* eventually leaves its polling loop, sets shutdown_signal, joins the
\* Listener and returns, in every interleaving: also when the Listener
\* already stopped because of a failure at startup, and also when error
\* messages are queued in front of the Quit (every collaborator call
\* returning): from every state with a Quit in the channel, whatever else
\* the channel holds and wherever the Listener is, the return is reached.
C30_QuitShutsDown ==
    /\ C30_QuitSent ~> C30_Returned
    /\ [](cpc = "done" => C30_Returned)

\* The Listener stopped at startup, before it had a Binding Table; its error
\* message was taken before the Quit, and run_tray_app has returned.
C30_ReturnedAfterStartupFailure ==
    /\ C30_Returned
    /\ hotkey_device_map = <<>>
    /\ os_hotkeys = {}
    /\ hist.sleeps = 0
    /\ channel = <<>>


\* The Listener has left its poll loop, or never entered it.
C31_LoopLeft == lpc \in {"cleanup", "com_uninit", "stopped"}

\* C31: with the shutdown flag set the Listener dequeues at most one further
\* hotkey event before it leaves the poll loop; once the loop is left no
\* event is dequeued and no pipeline runs, so the events still queued stay
\* queued and nothing is committed for them.
C31_AtMostOneLateEvent ==
    /\ [](hist.late <= 1)
    /\ [](C31_LoopLeft => last = None)
    /\ [][C31_LoopLeft =>
            /\ receiver' = receiver
            /\ last' = last
            /\ hist'.late = hist.late
            /\ hist'.found = hist.found
            /\ hist'.failed = hist.failed]_vars

\* The Listener stopped after it dequeued one event with the flag set, and
\* another event is still queued.
C31_StoppedWithEventPending ==
    /\ lpc = "stopped"
    /\ shutdown_signal
    /\ hist.late = 1
    /\ receiver # <<>>


\* The message the Listener sends when unregister_all fails.
C32_CleanupError == HotkeyError("Failed to unregister hotkeys")

\* How many cleanup errors a channel holds.
C32_Queued(ch) == Cardinality({i \in DOMAIN ch : ch[i] = C32_CleanupError})

\* C32: a cleanup error of the Listener is never received by the
\* Coordinator.  The cleanup runs only with the shutdown flag set; the flag
\* is set only by the store that follows the polling loop; with the flag set
\* the Coordinator is past its loop and takes nothing from the channel, so a
\* cleanup error stays queued.
C32_CleanupErrorNeverReceived ==
    /\ [](lpc \in {"cleanup", "com_uninit"} => shutdown_signal)
    /\ [][(~shutdown_signal /\ shutdown_signal') => (cpc = "store" /\ cpc' = "join")]_vars
    /\ [](shutdown_signal => cpc \in {"join", "done"})
    /\ [][shutdown_signal =>
            /\ Len(channel') >= Len(channel)
            /\ SubSeq(channel', 1, Len(channel)) = channel]_vars
    /\ [][C32_Queued(channel') >= C32_Queued(channel)]_vars

\* run_tray_app has returned and the cleanup error is still in the channel.
C32_ReturnedWithCleanupErrorQueued ==
    /\ cpc = "done"
    /\ lpc = "stopped"
    /\ C32_Queued(channel) = 1


\* The Coordinator is in its polling loop.
C33_Polling == cpc \in {"recv", "check"}

\* C33: while the Coordinator polls, a sender of its own is alive, so
\* try_recv never answers Disconnected; the loop is left only by the receipt
\* of Quit, without a store inside the loop, and the check of the flag at the
\* end of an iteration never finds it set.
C33_LoopLeftOnlyThroughQuit ==
    /\ [](C33_Polling => SendersAlive \cap {"error_sender", "quit_sender"} # {})
    /\ [](C33_Polling => ~shutdown_signal)
    /\ [][(C33_Polling /\ ~C33_Polling') =>
            /\ cpc = "recv"
            /\ cpc' = "store"
            /\ channel # <<>>
            /\ Head(channel) = Quit
            /\ shutdown_signal' = shutdown_signal
            /\ hist'.stores = hist.stores]_vars
    /\ [][(cpc = "check" /\ cpc' # cpc) => cpc' = "recv"]_vars
    /\ [](hist.stores <= 1)

\* The Listener has stopped and dropped its sender, the channel is empty,
\* and the Coordinator's try_recv has answered Empty: the loop goes on.
C33_EmptyAfterListenerStopped ==
    /\ cpc = "check"
    /\ lpc = "stopped"
    /\ channel = <<>>
    /\ ~shutdown_signal


\* C34: COM is balanced on the Listener thread: whenever
\* hotkey_listener_thread has returned, every CoInitializeEx made on the
\* thread, those inside list_output_devices and list_input_devices included,
\* has been answered by a CoUninitialize.
C34_ComBalancedOnExit == lpc = "stopped" => com_inits = 0


\* The matching step of the switch pipelines: whether it returns a device.
C35_Matches(devs, name) ==
    IF config[1].fuzzy_match THEN FuzzyFind(devs, name) # 0
    ELSE ExactFind(devs, name) # 0

\* Whether a list of missing entries holds an entry for the name.
C35_ReportedMissing(missing, name) ==
    \E i \in DOMAIN missing : missing[i].name = name

\* The validation has run on lists it could enumerate.
C35_Validated == validation # None /\ validation[1].report.enumerated

\* C35: validation and the switch pipelines agree.  For the lists the
\* validation enumerated, a configured name is reported missing exactly when
\* the matching step of the pipeline returns no device for it, in exact and
\* in fuzzy mode; and a pipeline that ran on the lists the validation saw
\* resolved no device exactly when its target was reported missing.
C35_ValidationAgreesWithPipeline ==
    /\ C35_Validated =>
         LET v == validation[1]
             outs == list_output_devices(v.seen[1]).val
             ins == list_input_devices(v.seen[2]).val
         IN  \A i \in DOMAIN config[1].hotkeys :
               LET m == config[1].hotkeys[i] IN
               /\ C35_ReportedMissing(v.report.missing_output, m.device_name)
                    <=> ~C35_Matches(outs, m.device_name)
               /\ m.input_device_name # None =>
                    (C35_ReportedMissing(v.report.missing_input, m.input_device_name[1])
                       <=> ~C35_Matches(ins, m.input_device_name[1]))
    /\ (/\ C35_Validated
        /\ validation[1].seen = <<AnswerOf(available_output_devices),
                                  AnswerOf(available_input_devices)>>
        /\ last # None
        /\ last[1].out # None) =>
         LET m == hotkey_device_map[last[1].id] IN
         /\ (last[1].out[1].resolved = 0)
              <=> C35_ReportedMissing(validation[1].report.missing_output, m.device_name)
         /\ last[1].inp # None =>
              ((last[1].inp[1].resolved = 0)
                 <=> C35_ReportedMissing(validation[1].report.missing_input,
                                         m.input_device_name[1]))

\* In fuzzy mode, with devices listed, the output target was reported
\* missing and the output pipeline of a press found no match, while the
\* input target was found by both.
C35_MissingAndNoMatchFuzzy ==
    /\ C35_Validated
    /\ config[1].fuzzy_match
    /\ available_output_devices # <<>>
    /\ last # None
    /\ last[1].out # None
    /\ last[1].out[1].resolved = 0
    /\ validation[1].report.missing_output # <<>>
    /\ last[1].inp # None
    /\ last[1].inp[1].resolved # 0
    /\ validation[1].report.missing_input = <<>>


\* One of the validation's two enumerations failed.
C36_EnumerationFailed == validation # None /\ ~validation[1].report.enumerated

\* C36: when an enumeration fails during the startup validation, the
\* validation reports no missing device and no available name, no
\* notification is shown, and the startup goes on to spawn the Listener as
\* it does when every configured device was found.
C36_FailedEnumerationReportsNothing ==
    /\ [](C36_EnumerationFailed =>
            /\ validation[1].seen[1].fails \/ validation[1].seen[2].fails
            /\ validation[1].report.missing_output = <<>>
            /\ validation[1].report.missing_input = <<>>
            /\ validation[1].report.available_output = <<>>
            /\ validation[1].report.available_input = <<>>
            /\ validation[1].notification = None)
    /\ []((validation # None
           /\ (validation[1].seen[1].fails \/ validation[1].seen[2].fails))
          => C36_EnumerationFailed)
    /\ [][cpc = "validate" => cpc' \in {"validate", "spawn"}]_vars
    /\ []((cpc = "spawn" /\ C36_EnumerationFailed) => ENABLED CoordSpawn)
    /\ [][(cpc = "spawn" /\ cpc' # "spawn") =>
            (cpc' = "tray" /\ lpc' = "com_init" /\ validation' = validation)]_vars

\* The Listener was spawned after a validation whose input enumeration
\* failed, though the output devices it had listed hold no match for the
\* configured output name.
C36_SpawnedAfterFailedEnumeration ==
    /\ C36_EnumerationFailed
    /\ cpc = "tray"
    /\ lpc = "com_init"
    /\ ~validation[1].seen[1].fails
    /\ validation[1].seen[1].endpoints # <<>>
    /\ ~DeviceFound(list_output_devices(validation[1].seen[1]).val,
                    config[1].hotkeys[1].device_name, config[1])

====
